---- MODULE Spec2Model ----
(***************************************************************************)
(* Model of the sensor acquisition subsystem of drip-node:                 *)
(*   src/src/enviro_phat/v1/bmp280.rs   pressure/temperature driver        *)
(*   src/src/enviro_phat/v1/tcs3472.rs  light driver                       *)
(*   src/src/enviro_phat/v1/mod.rs      EnviroPHatV1 facade                *)
(* The two drivers share one Arc<Mutex<LinuxI2CBus>>.  Every bus           *)
(* transaction is the statement `comm.lock().unwrap().transfer(&mut m)?`:  *)
(* the mutex is taken, the segments of m are transferred in order, the     *)
(* guard is dropped at the end of the statement, and `?` returns the       *)
(* error of a failed transfer to the caller.                               *)
(*                                                                         *)
(* Spec is the program: caller 0 runs EnviroPHatV1::new; callers           *)
(* 1..NumThreads are measurement tasks, each calling measure() once on     *)
(* the shared facade once it exists (TaskSpec adds the store of            *)
(* create_measurement_task).  DriverSpec is the Bmp280 driver on its own:  *)
(* caller 0 runs Bmp280::new with any mode, the other callers call         *)
(* query_press_and_temp and reconfigure.  The bus is an instrumented       *)
(* transport: it records every segment it is handed (busLog), answers      *)
(* reads from the register file of the attached device fixture, and may    *)
(* fail a segment.  The build without hardware replaces the facade by      *)
(* src/src/enviro_phat/stub/mod.rs (EnviroPHatStub), which touches no bus. *)
(***************************************************************************)
EXTENDS Integers, Sequences, FiniteSets, TLC

\* ------------------------------------------------------------------ bounds
NumThreads == 2      \* measurement tasks, each calling measure() once
MaxFaults == 1       \* transport faults injected in one behaviour
MaxGap == 1          \* distance between the two raw light codes compared
RawEdge == 1          \* data bytes taken within this distance of an edge
CalibEdge == 1       \* calibration codes taken within this distance of an edge

\* ------------------------------------------------- constants of bmp280.rs
BMP_I2C_ADDR == 119            \* 0x77
BMP_CHIP_ID_REG_ADDR == 208    \* 0xd0
BMP_CHIP_ID_EXPECTED == 88     \* 0x58
CALIB_REG_ADDR == 136          \* 0x88
CALIB_DATA_SIZE == 24
CTRL_MEAS_REG_ADDR == 244      \* 0xf4
CONFIG_REG_ADDR == 245         \* 0xf5
DATA_REG_ADDR == 247           \* 0xf7
DATA_REG_SIZE == 6

\* ------------------------------------------------ constants of tcs3472.rs
TCS_I2C_ADDR == 119            \* 0x77
CMD_REG_MASK == 128            \* 0x80
CMD_REG_AUTOINCREMENT == 32    \* 0x20
ENABLE_REG_ADDR == 0
ENABLE_REG_AEN == 2
ENABLE_REG_PON == 1
CONTROL_REG_ADDR == 15         \* 0x0f
TCS_CHIP_ID_REG_ADDR == 18     \* 0x12
TCS_CHIP_ID_EXPECTED == 68     \* 0x44
CLEAR_DATA_REG_ADDR == 20      \* 0x14
CLEAR_DATA_REG_SIZE == 2
PERIOD_COUNT == 64
U8_MAX == 255
U16_MAX == 65535

\* ------------------------------------------------------------ enum values
\* #[repr(u8)] enums: `v as u8` is the discriminant.
OversamplingCode(o) ==
    CASE o = "Mult1X" -> 1
      [] o = "Mult2X" -> 2
      [] o = "Mult4X" -> 3
      [] o = "Mult8X" -> 4
      [] o = "Mult16X" -> 5

ModeCode(m) ==
    CASE m = "Sleep" -> 0
      [] m = "Forced" -> 1
      [] m = "Normal" -> 3

StandbyTimeCode(s) ==
    CASE s = "Time0_5ms" -> 0
      [] s = "Time62_5ms" -> 1
      [] s = "Time125ms" -> 2
      [] s = "Time250ms" -> 3
      [] s = "Time500ms" -> 4
      [] s = "Time1000ms" -> 5
      [] s = "Time2000ms" -> 6
      [] s = "Time4000ms" -> 7

IIRCoeficientCode(c) ==
    CASE c = "Off" -> 1
      [] c = "Mult2X" -> 2
      [] c = "Mult4X" -> 3
      [] c = "Mult8X" -> 4
      [] c = "Mult16X" -> 5

GainCode(g) ==
    CASE g = "Mult1X" -> 0
      [] g = "Mult4X" -> 1
      [] g = "Mult16X" -> 2
      [] g = "Mult60X" -> 3

\* ------------------------------------------------------ integer arithmetic
Pow2(n) == 2 ^ n

\* u8 << n (the shifted-out bits are lost)
ShlU8(x, n) == (x * Pow2(n)) % 256

\* x | y of unsigned values, bit by bit.  The operands are bound to their
\* values (a, b) so that each is evaluated once.
RECURSIVE BitOr(_, _)
BitOr(x, y) ==
    CHOOSE r \in { IF a = 0 THEN b
                   ELSE IF b = 0 THEN a
                   ELSE (IF (a % 2 = 1) \/ (b % 2 = 1) THEN 1 ELSE 0)
                        + 2 * BitOr(a \div 2, b \div 2) : a \in {x}, b \in {y} } : TRUE

\* ((hi as u16) << 8) | (lo as u16)
U16LE(lo, hi) == BitOr(hi * 256, lo)

\* `x as i16` of a u16
AsI16_Unsigned(u) == u
AsI16(u) == IF u >= 32768 THEN u - 65536 ELSE u

\* `x as i32` of a u32
AsI32(u) == IF u > 2147483647 THEN u - 2147483647 - 2147483647 - 2 ELSE u

\* ------------------------------------------------------------ f32 values
\* An f32 is modelled by its class k, sign s and, for a number, mantissa m
\* and exponent e: value = (-1)^s * m * 2^e with 2^23 <= m < 2^24 and
\* -149 <= e <= 104 (normal), 0 < m < 2^23 and e = -149 (subnormal), or
\* m = 0 (+-0.0).  The arithmetic below is IEEE 754 binary32 with rounding
\* to nearest, ties to even, on integers that stay below 2^31.
F32Num(s, m, e) == [k |-> "num", s |-> s, m |-> m, e |-> e]
F32Inf(s) == [k |-> "inf", s |-> s, m |-> 0, e |-> 0]
F32NaN == [k |-> "nan", s |-> 0, m |-> 0, e |-> 0]
F32Zero == F32Num(0, 0, 0)
F32One == F32Num(0, Pow2(23), 0 - 23)
F32MinExp == 0 - 149
F32MaxExp == 104

F32IsZero(x) == x.k = "num" /\ x.m = 0
F32IsFinite(x) == x.k = "num"

\* x < y (false when either is NaN; -0.0 = +0.0)
F32Less(x, y) ==
    IF x.k = "nan" \/ y.k = "nan" THEN FALSE
    ELSE IF x.k = "inf" THEN x.s = 1 /\ ~(y.k = "inf" /\ y.s = 1)
    ELSE IF y.k = "inf" THEN y.s = 0
    ELSE IF x.m = 0 THEN y.m > 0 /\ y.s = 0
    ELSE IF y.m = 0 THEN x.s = 1
    ELSE IF x.s # y.s THEN x.s = 1
    ELSE LET below == x.e < y.e \/ (x.e = y.e /\ x.m < y.m)
             above == y.e < x.e \/ (x.e = y.e /\ y.m < x.m)
         IN IF x.s = 0 THEN below ELSE above

\* Number of bits of n (0 < n < 2^31).
BitLen(n) ==
    IF n >= 8388608                       \* 2^23
    THEN IF n >= 134217728                \* 2^27
         THEN (IF n >= 536870912 THEN (IF n >= 1073741824 THEN 31 ELSE 30)
               ELSE (IF n >= 268435456 THEN 29 ELSE 28))
         ELSE (IF n >= 33554432 THEN (IF n >= 67108864 THEN 27 ELSE 26)
               ELSE (IF n >= 16777216 THEN 25 ELSE 24))
    ELSE CHOOSE b \in 1..23 : n \div Pow2(b - 1) = 1

\* The f32 with sign s and the rounded mantissa m (0 <= m <= 2^24) at
\* exponent e: a mantissa that rounded up to 2^24 moves to the next
\* exponent, a number beyond the largest f32 is infinite.
F32Pack(s, m, e) ==
    IF m = 0 THEN F32Num(s, 0, 0)
    ELSE IF m = Pow2(24)
         THEN IF e + 1 > F32MaxExp THEN F32Inf(s) ELSE F32Num(s, Pow2(23), e + 1)
         ELSE IF e > F32MaxExp THEN F32Inf(s) ELSE F32Num(s, m, e)

\* big * 2^e (plus something below one unit of big when sticky) with its
\* last sh bits rounded away, or shifted left by -sh bits.
F32Shift(s, big, e, sticky, sh) ==
    IF sh <= 0 THEN F32Pack(s, big * Pow2(0 - sh), e + sh)
    ELSE IF sh > 31 THEN F32Num(s, 0, 0)
    ELSE LET half == Pow2(sh - 1)
             q == IF sh = 31 THEN 0 ELSE big \div Pow2(sh)
             r == IF sh = 31 THEN big ELSE big % Pow2(sh)
             up == r > half \/ (r = half /\ (sticky \/ q % 2 = 1))
         IN F32Pack(s, IF up THEN q + 1 ELSE q, e + sh)

Max(a, b) == IF a > b THEN a ELSE b
Min(a, b) == IF a < b THEN a ELSE b

\* The f32 nearest to (-1)^s * big * 2^e (0 < big < 2^31; when sticky, the
\* exact value lies strictly between big and big + 1, and big >= 2^25).
F32Round(s, big, e, sticky) ==
    CHOOSE r \in { CHOOSE v \in { F32Shift(s, b, x, sticky, sh)
                                  : sh \in {Max(BitLen(b) - 24, F32MinExp - x)} } : TRUE
                   : b \in {big}, x \in {e} } : TRUE

\* `n as f32` of an integer (|n| < 2^31)
F32FromInt(n) ==
    IF n = 0 THEN F32Zero
    ELSE IF n < 0 THEN F32Round(1, 0 - n, 0, FALSE)
    ELSE F32Round(0, n, 0, FALSE)

\* a + b of two non-zero numbers, a the one with the larger magnitude and
\* d the difference of the exponents.  Three more bits are kept.
F32AddAligned(a, b, d) ==
    LET ma == a.m * 8
        mb == IF d > 27 THEN 0 ELSE (b.m * 8) \div Pow2(d)
        sticky == IF d > 27 THEN TRUE ELSE (b.m * 8) % Pow2(d) # 0
    IN IF a.s = b.s THEN F32Round(a.s, ma + mb, a.e - 3, sticky)
       ELSE IF ma = mb /\ ~sticky THEN F32Zero
       ELSE F32Round(a.s, IF sticky THEN ma - mb - 1 ELSE ma - mb, a.e - 3, sticky)

F32AddNum(a, b) ==
    IF a.m = 0 /\ b.m = 0 THEN F32Num(IF a.s = 1 /\ b.s = 1 THEN 1 ELSE 0, 0, 0)
    ELSE IF a.m = 0 THEN b
    ELSE IF b.m = 0 THEN a
    ELSE IF a.e > b.e \/ (a.e = b.e /\ a.m >= b.m)
         THEN F32AddAligned(a, b, a.e - b.e)
         ELSE F32AddAligned(b, a, b.e - a.e)

\* x + y
F32Add(x, y) ==
    CHOOSE r \in { IF a.k = "nan" \/ b.k = "nan" THEN F32NaN
                   ELSE IF a.k = "inf"
                        THEN IF b.k = "inf" /\ b.s # a.s THEN F32NaN ELSE a
                   ELSE IF b.k = "inf" THEN b
                   ELSE F32AddNum(a, b)
                   : a \in {x}, b \in {y} } : TRUE

\* x - y
F32Sub(x, y) == F32Add(x, IF y.k = "nan" THEN y ELSE [y EXCEPT !.s = 1 - y.s])

\* The f32 nearest to (-1)^s * (hi * 2^24 + lo) * 2^e (hi, lo < 2^24, not
\* both 0): the leading 30 bits, the rest remembered as sticky.
F32Wide(s, hi, lo, e) ==
    IF hi = 0 THEN F32Round(s, lo, e, FALSE)
    ELSE CHOOSE r \in { F32Round(s, hi * Pow2(c) + lo \div Pow2(24 - c), e + 24 - c,
                                 lo % Pow2(24 - c) # 0)
                        : c \in {Min(30 - BitLen(hi), 24)} } : TRUE

\* a * b of two non-zero numbers: the 48-bit product of the mantissas from
\* 12-bit halves.
F32MulNum(a, b) ==
    LET ah == a.m \div 4096
        al == a.m % 4096
        bh == b.m \div 4096
        bl == b.m % 4096
    IN CHOOSE r \in { CHOOSE v \in { F32Wide((a.s + b.s) % 2,
                                             ah * bh + mid \div 4096 + l0 \div Pow2(24),
                                             l0 % Pow2(24), a.e + b.e)
                                     : l0 \in {(mid % 4096) * 4096 + al * bl} } : TRUE
                      : mid \in {ah * bl + al * bh} } : TRUE

\* x * y
F32Mul(x, y) ==
    CHOOSE r \in { IF a.k = "nan" \/ b.k = "nan" THEN F32NaN
                   ELSE IF a.k = "inf" \/ b.k = "inf"
                        THEN IF F32IsZero(a) \/ F32IsZero(b) THEN F32NaN
                             ELSE F32Inf((a.s + b.s) % 2)
                   ELSE IF a.m = 0 \/ b.m = 0 THEN F32Num((a.s + b.s) % 2, 0, 0)
                   ELSE F32MulNum(a, b)
                   : a \in {x}, b \in {y} } : TRUE

\* Long division: `bits` more quotient bits of rem / d appended to q
\* (rem < d < 2^24 and bits <= 7, so that nothing exceeds 31 bits).
DivBits(q, rem, d, bits) ==
    [ q |-> q * Pow2(bits) + (rem * Pow2(bits)) \div d,
      rem |-> (rem * Pow2(bits)) % d ]

\* The first 27 bits of the quotient n / d of two 24-bit mantissas
\* (2^23 <= n, d < 2^24) and the remainder left.
F32Quotient(n, d) ==
    CHOOSE r \in { CHOOSE v \in { CHOOSE w \in { DivBits(q3.q, q3.rem, d, 5)
                                                 : q3 \in {DivBits(q2.q, q2.rem, d, 7)} } : TRUE
                                  : q2 \in {DivBits(q1.q, q1.rem, d, 7)} } : TRUE
                   : q1 \in {DivBits(n \div d, n % d, d, 7)} } : TRUE

\* A non-zero number with its mantissa shifted up to 24 bits.
F32Normal(a) ==
    CHOOSE r \in { [a EXCEPT !.m = a.m * Pow2(sh), !.e = a.e - sh]
                   : sh \in {24 - BitLen(a.m)} } : TRUE

\* a / b of two non-zero numbers
F32DivNum(a, b) ==
    CHOOSE r \in { CHOOSE v \in { F32Round((a.s + b.s) % 2, q.q, na.e - nb.e - 26, q.rem # 0)
                                  : q \in {F32Quotient(na.m, nb.m)} } : TRUE
                   : na \in {F32Normal(a)}, nb \in {F32Normal(b)} } : TRUE

\* x / y
F32Quot(x, y) ==
    CHOOSE r \in { IF a.k = "nan" \/ b.k = "nan" THEN F32NaN
                   ELSE IF a.k = "inf"
                        THEN IF b.k = "inf" THEN F32NaN ELSE F32Inf((a.s + b.s) % 2)
                   ELSE IF b.k = "inf" THEN F32Num((a.s + b.s) % 2, 0, 0)
                   ELSE IF b.m = 0
                        THEN IF a.m = 0 THEN F32NaN ELSE F32Inf((a.s + b.s) % 2)
                   ELSE IF a.m = 0 THEN F32Num((a.s + b.s) % 2, 0, 0)
                   ELSE F32DivNum(a, b)
                   : a \in {x}, b \in {y} } : TRUE

\* (x as f32) / (d as f32) of two integers
F32Div(x, d) == F32Quot(F32FromInt(x), F32FromInt(d))

\* ------------------------------------------------------ bus transactions
\* A LinuxI2CMessage holds the address and the length of its buffer and
\* nothing that keeps the buffer alive.  `tmp` tells whether the buffer is
\* a temporary of the statement that built the message.
\* LinuxI2CMessage::write(bytes).with_address(addr), bytes a constant
\* array (`&[Self::DATA_REG_ADDR]`): the array is a static.
WriteMsg(addr, bytes) ==
    [rw |-> "w", addr |-> addr, bytes |-> bytes, len |-> Len(bytes), tmp |-> FALSE]

\* LinuxI2CMessage::write(&[.. values computed at run time ..]): the array
\* is a temporary dropped at the end of the `let` that builds the message
\* list, before transfer() reads it.
WriteTmpMsg(addr, bytes) ==
    [rw |-> "w", addr |-> addr, bytes |-> bytes, len |-> Len(bytes), tmp |-> TRUE]

\* LinuxI2CMessage::read(&mut buf).with_address(addr), buf a local of n bytes
ReadMsg(addr, n) == [rw |-> "r", addr |-> addr, bytes |-> <<>>, len |-> n, tmp |-> FALSE]

\* Bmp280::new, id_msgs
BmpIdMsgs ==
    << WriteMsg(BMP_I2C_ADDR, <<BMP_CHIP_ID_REG_ADDR>>), ReadMsg(BMP_I2C_ADDR, 1) >>

\* Bmp280::new, calib_msgs
BmpCalibMsgs ==
    << WriteMsg(BMP_I2C_ADDR, <<CALIB_REG_ADDR>>), ReadMsg(BMP_I2C_ADDR, CALIB_DATA_SIZE) >>

\* ((temp_oversampling as u8) << 5) | ((press_oversampling as u8) << 2) | (mode as u8)
CtrlMeasReg(temp_os, press_os, mode) ==
    BitOr(BitOr(ShlU8(OversamplingCode(temp_os), 5), ShlU8(OversamplingCode(press_os), 2)),
          ModeCode(mode))

\* ((standby_time as u8) << 5) | ((iir_coef as u8) << 2)
ConfigReg(standby, iir) ==
    BitOr(ShlU8(StandbyTimeCode(standby), 5), ShlU8(IIRCoeficientCode(iir), 2))

\* Bmp280::reconfigure, config_msgs
ReconfigureMsgs(standby, iir, press_os, temp_os, mode) ==
    << WriteTmpMsg(BMP_I2C_ADDR, <<CTRL_MEAS_REG_ADDR, CtrlMeasReg(temp_os, press_os, mode)>>),
       WriteTmpMsg(BMP_I2C_ADDR, <<CONFIG_REG_ADDR, ConfigReg(standby, iir)>>) >>

\* Bmp280::query_press_and_temp, the forced-mode trigger (config_msgs)
TriggerMsgs(b) ==
    << WriteTmpMsg(BMP_I2C_ADDR,
                <<CTRL_MEAS_REG_ADDR,
                  CtrlMeasReg(b.temp_oversampling, b.press_oversampling, "Forced")>>) >>

\* Bmp280::query_press_and_temp, read_data_msgs
BmpDataMsgs_Recalib == BmpCalibMsgs
BmpDataMsgs ==
    << WriteMsg(BMP_I2C_ADDR, <<DATA_REG_ADDR>>), ReadMsg(BMP_I2C_ADDR, DATA_REG_SIZE) >>

\* Tcs3472 command bytes: the register address with the command bit, and
\* with the auto-increment bit where consecutive registers are accessed.
TcsIdCmd == BitOr(CMD_REG_MASK, TCS_CHIP_ID_REG_ADDR)
TcsEnableAutoincCmd == BitOr(BitOr(CMD_REG_MASK, CMD_REG_AUTOINCREMENT), ENABLE_REG_ADDR)
TcsControlCmd == BitOr(CMD_REG_MASK, CONTROL_REG_ADDR)
TcsClearAutoincCmd == BitOr(BitOr(CMD_REG_MASK, CMD_REG_AUTOINCREMENT), CLEAR_DATA_REG_ADDR)

\* Tcs3472::new, id_msgs
TcsIdMsgs ==
    << WriteMsg(TCS_I2C_ADDR, <<TcsIdCmd>>),
       ReadMsg(TCS_I2C_ADDR, 1) >>

\* Tcs3472::new, config_msgs
TcsConfigMsgs ==
    << WriteTmpMsg(TCS_I2C_ADDR,
                   << TcsEnableAutoincCmd,
                      BitOr(ENABLE_REG_AEN, ENABLE_REG_PON),
                      U8_MAX - PERIOD_COUNT >>),
       WriteTmpMsg(TCS_I2C_ADDR, <<TcsControlCmd, GainCode("Mult1X")>>) >>

\* Tcs3472::query_light_level, read_data_msgs
TcsLightMsgs ==
    << WriteTmpMsg(TCS_I2C_ADDR, <<TcsClearAutoincCmd>>),
       ReadMsg(TCS_I2C_ADDR, CLEAR_DATA_REG_SIZE) >>

\* ------------------------------------------------------ driver arithmetic
\* Bmp280::new: the chip identity check
BmpIdMatches_Any(id) == TRUE
BmpIdMatches(id) == id = BMP_CHIP_ID_EXPECTED

\* Tcs3472::new: the chip identity check
TcsIdMatches_Any(id) == TRUE
TcsIdMatches(id) == id = TCS_CHIP_ID_EXPECTED

\* Bmp280::new: CalibrationData decoded from the 24-byte block
DecodeCalib(cd) ==
    [ dig_t1 |-> U16LE(cd[1], cd[2]),
      dig_t2 |-> AsI16(U16LE(cd[3], cd[4])),
      dig_t3 |-> AsI16(U16LE(cd[5], cd[6])),
      dig_p1 |-> U16LE(cd[7], cd[8]),
      dig_p2 |-> AsI16(U16LE(cd[9], cd[10])),
      dig_p3 |-> AsI16(U16LE(cd[11], cd[12])),
      dig_p4 |-> AsI16(U16LE(cd[13], cd[14])),
      dig_p5 |-> AsI16(U16LE(cd[15], cd[16])),
      dig_p6 |-> AsI16(U16LE(cd[17], cd[18])),
      dig_p7 |-> AsI16(U16LE(cd[19], cd[20])),
      dig_p8 |-> AsI16(U16LE(cd[21], cd[22])),
      dig_p9 |-> AsI16(U16LE(cd[23], cd[24])) ]

\* ((b0 as u32) << 12) | ((b1 as u32) << 4) | ((b2 as u32) >> 4)
Raw20_NoShift(b0, b1, b2) == BitOr(BitOr(b0 * 4096, b1 * 16), b2)
Raw20(b0, b1, b2) == BitOr(BitOr(b0 * 4096, b1 * 16), b2 \div 16)

\* query_press_and_temp: raw_press and raw_temp of the six data bytes
RawCodes(raw_data) ==
    [ raw_press |-> AsI32(Raw20(raw_data[1], raw_data[2], raw_data[3])),
      raw_temp |-> AsI32(Raw20(raw_data[4], raw_data[5], raw_data[6])) ]

\* query_press_and_temp: `if self.mode != Mode::Normal`
NeedsTrigger(mode) == mode # "Normal"

\* The f32 constants 2.2 and 4.3 (t_press_sample_ms, t_temp_sample_ms).
F32PressSampleMs == F32Num(0, 9227469, 0 - 22)
F32TempSampleMs == F32Num(0, 9017754, 0 - 21)

\* x.ceil() as u64 of a finite f32 that is not negative
F32CeilU64(x) ==
    IF x.m = 0 THEN 0
    ELSE IF x.e >= 0 THEN x.m * Pow2(x.e)
    ELSE IF 0 - x.e > 24 THEN 1
    ELSE (x.m + Pow2(0 - x.e) - 1) \div Pow2(0 - x.e)

\* The forced-mode settle time:
\*   (2.2 * (press as u8) as f32 + 4.3 * (temp as u8) as f32 + 2.0).ceil() as u64
WaitTimeMs(press_os, temp_os) ==
    F32CeilU64(F32Add(F32Add(F32Mul(F32PressSampleMs, F32FromInt(OversamplingCode(press_os))),
                             F32Mul(F32TempSampleMs, F32FromInt(OversamplingCode(temp_os)))),
                      F32FromInt(2)))

\* The compensation of query_press_and_temp (datasheet appendix 8.1), every
\* operation an f32 operation in the order the source evaluates it.
\* c is the CalibrationData, rt and rp the raw codes.
\* (raw_temp / 16384.0 - dig_t1 / 1024.0) * dig_t2
TVar1(c, rt) ==
    F32Mul(F32Sub(F32Quot(F32FromInt(rt), F32FromInt(16384)),
                  F32Quot(F32FromInt(c.dig_t1), F32FromInt(1024))),
           F32FromInt(c.dig_t2))

\* raw_temp / 131072.0 - dig_t1 / 8192.0
TVar2Term(c, rt) ==
    F32Sub(F32Quot(F32FromInt(rt), F32FromInt(131072)),
           F32Quot(F32FromInt(c.dig_t1), F32FromInt(8192)))

TVar2(c, rt) == F32Mul(F32Mul(TVar2Term(c, rt), TVar2Term(c, rt)), F32FromInt(c.dig_t3))

\* t_fine = t_var1 + t_var2
TFine(c, rt) == F32Add(TVar1(c, rt), TVar2(c, rt))

\* output_temp = t_fine / 5120.0
OutputTemp(t_fine) == F32Quot(t_fine, F32FromInt(5120))

\* p_var1 = t_fine / 2.0 - 64000.0
PVar1OfTFine(t_fine) == F32Sub(F32Quot(t_fine, F32FromInt(2)), F32FromInt(64000))

\* p_var2 = p_var1 * p_var1 * dig_p6 / 32768.0 + p_var1 * dig_p5 * 2.0;
\* p_var2 = p_var2 / 4.0 + dig_p4 * 65536.0
PVar2(c, p) ==
    F32Add(F32Quot(F32Add(F32Quot(F32Mul(F32Mul(p, p), F32FromInt(c.dig_p6)),
                                  F32FromInt(32768)),
                          F32Mul(F32Mul(p, F32FromInt(c.dig_p5)), F32FromInt(2))),
                   F32FromInt(4)),
           F32Mul(F32FromInt(c.dig_p4), F32FromInt(65536)))

\* p_var1 = (dig_p3 * p_var1 * p_var1 / 524288.0 + dig_p2 * p_var1) / 524288.0;
\* p_var1 = (1.0 + p_var1 / 32768.0) * dig_p1: the divisor of the pressure branch
PressDivisor(c, p) ==
    F32Mul(F32Add(F32One,
                  F32Quot(F32Quot(F32Add(F32Quot(F32Mul(F32Mul(F32FromInt(c.dig_p3), p), p),
                                                 F32FromInt(524288)),
                                         F32Mul(F32FromInt(c.dig_p2), p)),
                                  F32FromInt(524288)),
                          F32FromInt(32768))),
           F32FromInt(c.dig_p1))

\* p_var3 = 1048576.0 - raw_press;
\* p_var3 = (p_var3 - p_var2 / 4096.0) * 6250.0 / p_var1
PVar3(c, rp, p) ==
    F32Quot(F32Mul(F32Sub(F32Sub(F32FromInt(1048576), F32FromInt(rp)),
                          F32Quot(PVar2(c, p), F32FromInt(4096))),
                   F32FromInt(6250)),
            PressDivisor(c, p))

\* 2147483648.0
F32TwoTo31 == F32Num(0, Pow2(23), 8)

\* p_var1 = dig_p9 * p_var3 * p_var3 / 2147483648.0;
\* p_var2 = p_var3 * dig_p8 / 32768.0;
\* output_press = p_var3 + (p_var1 + p_var2 + dig_p7) / 16.0
OutputPress(c, p3) ==
    F32Add(p3,
           F32Quot(F32Add(F32Add(F32Quot(F32Mul(F32Mul(F32FromInt(c.dig_p9), p3), p3),
                                         F32TwoTo31),
                                 F32Quot(F32Mul(p3, F32FromInt(c.dig_p8)), F32FromInt(32768))),
                          F32FromInt(c.dig_p7)),
                   F32FromInt(16)))

\* output_press from t_fine: each intermediate is computed once.
PressureOf(c, rp, t_fine) ==
    CHOOSE r \in { CHOOSE v \in { OutputPress(c, p3) : p3 \in {PVar3(c, rp, p)} } : TRUE
                   : p \in {PVar1OfTFine(t_fine)} } : TRUE

\* The divisor p_var1 of the pressure branch is +-0.0: dig_p1 is 0, or
\* 1.0 + p_var1 / 32768.0 is 0.0.  Then p_var3 is infinite or NaN, and so
\* is output_press.
PressDivisorIsZero(calib, raw_temp) ==
    F32IsZero(PressDivisor(calib, PVar1OfTFine(TFine(calib, raw_temp))))

\* Bmp280::query_press_and_temp after the data read: raw codes and the
\* compensated values (val), kept together with the raw code each is
\* computed from and, for the pressure, whether the value is finite.
\* The function has no error exit: it always returns Ok.
CompensateFrom(c, raw, t_fine) ==
    CHOOSE r \in { [ tag |-> "Ok",
                     pressure |-> [raw |-> raw.raw_press, finite |-> F32IsFinite(p), val |-> p],
                     temperature |-> [raw |-> raw.raw_temp, val |-> OutputTemp(t_fine)] ]
                   : p \in {PressureOf(c, raw.raw_press, t_fine)} } : TRUE

Compensate(calib, raw_data) ==
    CHOOSE r \in { CHOOSE v \in { CompensateFrom(c, raw, t_fine)
                                  : t_fine \in {TFine(c, raw.raw_temp)} } : TRUE
                   : c \in {calib}, raw \in {RawCodes(raw_data)} } : TRUE

\* Tcs3472::query_light_level: raw_val from the two bytes read
LightRaw_Swapped(buf) == U16LE(buf[2], buf[1])
LightRaw(buf) == U16LE(buf[1], buf[2])

\* LightLevel((raw_val as f32) / (u16::MAX as f32))
LightLevel(buf) == F32Div(LightRaw(buf), U16_MAX)

\* EnviroPHatStub::measure: the fixed Measurement, as f32 values
\* (101325.0 = 12969600 * 2^-7, 24.0 = 12582912 * 2^-19,
\* 2.4 rounds to 10066330 * 2^-22).
StubMeasurement ==
    [ pressure |-> F32Num(0, 12969600, 0 - 7),
      temperature |-> F32Num(0, 12582912, 0 - 19),
      light_level |-> F32Num(0, 10066330, 0 - 22) ]

\* --------------------------------------------------------------- fixtures
\* Calibration block of the BMP280 datasheet example (dig_T1 = 27504,
\* dig_T2 = 26435, dig_T3 = -1000, dig_P1 = 36477, ...), little-endian.
CalibDatasheet ==
    << 112, 107, 67, 103, 24, 252, 125, 142, 67, 214, 208, 11,
       39, 11, 140, 0, 249, 255, 140, 60, 248, 198, 112, 23 >>

\* The same block with dig_P1 = 0.
CalibZeroP1 == [CalibDatasheet EXCEPT ![7] = 0, ![8] = 0]

\* Data registers of the datasheet example: raw_press 415148, raw_temp 519888.
DataSample == << 101, 90, 192, 126, 237, 0 >>

\* Clear-channel registers, low byte first.
LightSample == << 52, 18 >>

\* The device fixtures a behaviour may run against: the datasheet device,
\* the same with dig_P1 = 0, and one with a foreign identity byte for each chip.
GoodDevice ==
    [ bmp_id |-> BMP_CHIP_ID_EXPECTED, tcs_id |-> TCS_CHIP_ID_EXPECTED,
      calib |-> CalibDatasheet, data |-> DataSample, light |-> LightSample ]

ZeroP1Device == [GoodDevice EXCEPT !.calib = CalibZeroP1]
ForeignBmpDevice == [GoodDevice EXCEPT !.bmp_id = 96]
ForeignTcsDevice == [GoodDevice EXCEPT !.tcs_id = 77]

\* The arguments EnviroPHatV1::new hands to Bmp280::new.
FacadeArgs_Forced ==
    [ standby |-> "Time1000ms", iir |-> "Mult4X",
      press_os |-> "Mult16X", temp_os |-> "Mult2X", mode |-> "Forced" ]
FacadeArgs ==
    [ standby |-> "Time1000ms", iir |-> "Mult4X",
      press_os |-> "Mult16X", temp_os |-> "Mult2X", mode |-> "Normal" ]

\* The non-Normal configurations the signature of Bmp280::new admits.
ForcedArgs == [FacadeArgs EXCEPT !.mode = "Forced"]
SleepArgs == [FacadeArgs EXCEPT !.mode = "Sleep"]

\* The arguments reconfigure() is called with after construction.
ReconfigureArgs == {FacadeArgs, ForcedArgs}

\* The runs of the program: a device fixture, and the arguments
\* EnviroPHatV1::new hands to Bmp280::new (always the same).
Scenarios ==
    { [dev |-> d, cfg |-> FacadeArgs]
      : d \in {GoodDevice, ZeroP1Device, ForeignBmpDevice, ForeignTcsDevice} }

\* The runs of the Bmp280 driver on its own: Bmp280::new called with each
\* mode its signature admits.
DriverScenarios ==
    { [dev |-> d, cfg |-> a]
      : d \in {GoodDevice, ForeignBmpDevice}, a \in {FacadeArgs, ForcedArgs, SleepArgs} }

\* A message built from a temporary array points at memory that is dead
\* when transfer() reads it (undefined behaviour).  What is sent depends on
\* the build: in an unoptimized build the stack slot still holds the
\* array; in an optimized build the slot may have been reused, and each
\* byte sent is indeterminate.
Builds == {"unoptimized", "optimized"}

\* An indeterminate byte: it stands for any value in 0..255, the value the
\* source wrote included.
StaleByte == 0 - 1

\* ------------------------------------------------------------------ state
VARIABLES
    build,       \* how the compiled program treats the dropped temporaries
    dev,         \* the attached device fixture
    cfg,         \* the arguments of Bmp280::new
    lock,        \* callers holding the MutexGuard of the bus (at most one)
    regPtr,      \* the device's register pointer, set by the last write segment
    chipRegs,    \* register-select byte -> bytes last written behind it
    busLog,      \* the segments handed to the transport, in order
    txnSeq,      \* number of transfer() invocations so far
    sleepLog,    \* the thread::sleep calls: [call, ms, at = segments logged before]
    pc,          \* caller -> position in its code
    xfer,        \* caller -> its current bus transaction
    call,        \* caller -> number of the call it is executing
    nCalls,      \* measure() calls started so far
    faults,      \* transport faults injected
    ctor,        \* locals of EnviroPHatV1::new / Bmp280::new / Tcs3472::new
    wloc,        \* worker -> locals of measure()
    enviro_phat, \* <<>> or <<EnviroPHat>>: the value returned by new()
    results,     \* call number -> Result returned to the caller
    db_conn,     \* the shared SqliteConnection: guard holders, rows, task results
    probe        \* inputs and outputs of the pure-function specifications

vars ==
    << build, dev, cfg, lock, regPtr, chipRegs, busLog, txnSeq, sleepLog, pc, xfer, call,
       nCalls, faults, ctor, wloc, enviro_phat, results, db_conn, probe >>

Workers == 1..NumThreads
Callers == {0} \cup Workers

Ok(v) == [tag |-> "Ok", val |-> v]
Err(f) == [tag |-> "Err", fault |-> f]

Zeros(n) == [i \in 1..n |-> 0]

NoXfer ==
    [ phase |-> "none", op |-> "", stage |-> "", msgs |-> <<>>, idx |-> 1,
      ok |-> TRUE, rbuf |-> <<>>, tid |-> 0 ]

\* The state of a caller about to execute
\*   comm.lock().unwrap().transfer(&mut msgs)
\* Read buffers are zero-initialised arrays ([0; N]).
Begin(op, stage, msgs) ==
    [ phase |-> "want", op |-> op, stage |-> stage, msgs |-> msgs, idx |-> 1,
      ok |-> TRUE, rbuf |-> Zeros(msgs[Len(msgs)].len), tid |-> 0 ]

NoCtor == [calib |-> <<>>, bmp |-> <<>>, tcs |-> <<>>]
NoProbe == [in |-> <<>>, out |-> <<>>]
EmptyMap == [x \in {} |-> 0]

\* Arc<Mutex<SqliteConnection>> after establish(): no guard alive, the rows
\* of the measurements table (none inserted yet), and what each finished
\* measurement task returned.
NoDb == [lock |-> {}, rows |-> {}, ret |-> EmptyMap]

Init ==
    /\ build \in Builds
    /\ \E sc \in Scenarios : dev = sc.dev /\ cfg = sc.cfg
    /\ lock = {}
    /\ regPtr = 0
    /\ chipRegs = EmptyMap
    /\ busLog = <<>>
    /\ txnSeq = 0
    /\ sleepLog = <<>>
    /\ pc = [t \in Callers |-> IF t = 0 THEN "open" ELSE "idle"]
    /\ xfer = [t \in Callers |-> NoXfer]
    /\ call = [t \in Callers |-> 0]
    /\ nCalls = 0
    /\ faults = 0
    /\ ctor = NoCtor
    /\ wloc = [t \in Workers |-> <<>>]
    /\ enviro_phat = <<>>
    /\ results = EmptyMap
    /\ db_conn = NoDb
    /\ probe = NoProbe

\* The facade is the EnviroPHatV1 of the hardware build.
IsV1 == enviro_phat # <<>> /\ enviro_phat[1].backend = "v1"

\* The facade is the EnviroPHatStub of the build without hardware.
IsStub == enviro_phat # <<>> /\ enviro_phat[1].backend = "stub"

\* The value construction returned is a Bmp280 on its own.
IsBmp280 == enviro_phat # <<>> /\ enviro_phat[1].backend = "bmp280"

\* ---------------------------------------------------------- the transport
\* Register file of the device fixture: what a read returns after the
\* register-select byte `ptr` was written to address `addr`.
DevMem(d, addr, ptr) ==
    IF addr # BMP_I2C_ADDR THEN <<>>
    ELSE CASE ptr = BMP_CHIP_ID_REG_ADDR -> <<d.bmp_id>>
           [] ptr = CALIB_REG_ADDR -> d.calib
           [] ptr = DATA_REG_ADDR -> d.data
           [] ptr = TcsIdCmd -> <<d.tcs_id>>
           [] ptr = TcsClearAutoincCmd -> d.light
           [] OTHER -> <<>>

DevRead(d, addr, ptr, n) ==
    LET mem == DevMem(d, addr, ptr)
    IN [i \in 1..n |-> IF i <= Len(mem) THEN mem[i] ELSE 0]

\* The device's registers after a write segment: a register-select byte
\* followed by data stores the data behind that byte.
WriteEffect(regs, rw, bytes) ==
    IF rw = "w" /\ Len(bytes) > 1 THEN (bytes[1] :> Tail(bytes)) @@ regs ELSE regs

\* Mutex::lock() returns when no other guard is alive.
MutexAvailable_Unlocked == TRUE
MutexAvailable == lock = {}

\* The guard is a temporary of the transfer statement: it is dropped when
\* the statement ends, whatever transfer() returned.
GuardDropped_LeakOnError(t) == IF xfer[t].ok THEN lock \ {t} ELSE lock
GuardDropped(t) == lock \ {t}

\* `?` on the Result of transfer(): a failed transfer returns from the function.
TransferFailed_Ignored(x) == FALSE
TransferFailed(x) == ~x.ok

\* The bytes the transport finds in the buffer of write message m.
SentBytes(b, m) == IF m.tmp /\ b = "optimized" THEN [i \in 1..m.len |-> StaleByte] ELSE m.bytes

\* What a read of n bytes can return: the registers behind the pointer, or,
\* after an indeterminate register-select byte, behind any pointer.
ReadOutcomes(d, addr, ptr, n) ==
    IF ptr = StaleByte
    THEN { DevRead(d, addr, p, n) : p \in 0..U8_MAX }
    ELSE { DevRead(d, addr, ptr, n) }

\* One recorded segment: who issued it, the bytes on the wire (`bytes`),
\* and for a write the bytes of the array in the source (`src`).
LogEntry(t, x, m, data, ok) ==
    [ caller |-> t, call |-> call[t], op |-> x.op, stage |-> x.stage, tid |-> x.tid,
      seg |-> x.idx, rw |-> m.rw, addr |-> m.addr, len |-> m.len, bytes |-> data,
      src |-> m.bytes, ok |-> ok ]

\* comm.lock().unwrap()
Lock(t) ==
    /\ xfer[t].phase = "want"
    /\ MutexAvailable
    /\ lock' = lock \cup {t}
    /\ txnSeq' = txnSeq + 1
    /\ xfer' = [xfer EXCEPT ![t].phase = "held", ![t].tid = txnSeq + 1]
    /\ UNCHANGED << build, db_conn, dev, cfg, regPtr, chipRegs, busLog, sleepLog, pc, call, nCalls,
                    faults, ctor, wloc, enviro_phat, results, probe >>

\* transfer(): the next segment of the transaction is executed.
Segment(t) ==
    LET x == xfer[t]
    IN /\ x.phase = "held"
       /\ t \in lock
       /\ x.ok
       /\ x.idx <= Len(x.msgs)
       /\ LET m == x.msgs[x.idx]
          IN \E data \in IF m.rw = "w" THEN {SentBytes(build, m)}
                          ELSE ReadOutcomes(dev, m.addr, regPtr, m.len) :
                /\ busLog' = Append(busLog, LogEntry(t, x, m, data, TRUE))
                /\ regPtr' = IF m.rw = "w" THEN data[1] ELSE regPtr
                /\ chipRegs' = WriteEffect(chipRegs, m.rw, data)
                /\ xfer' = [xfer EXCEPT ![t].idx = x.idx + 1,
                                        ![t].rbuf = IF m.rw = "r" THEN data ELSE x.rbuf]
       /\ UNCHANGED << build, db_conn, dev, cfg, lock, txnSeq, sleepLog, pc, call, nCalls, faults, ctor,
                       wloc, enviro_phat, results, probe >>

\* transfer(): the next segment fails (no acknowledge, I/O error); transfer
\* returns Err and the remaining segments are not executed.
SegmentFault(t) ==
    LET x == xfer[t]
    IN /\ x.phase = "held"
       /\ t \in lock
       /\ x.ok
       /\ x.idx <= Len(x.msgs)
       /\ faults < MaxFaults
       /\ faults' = faults + 1
       /\ busLog' = Append(busLog, LogEntry(t, x, x.msgs[x.idx], <<>>, FALSE))
       /\ xfer' = [xfer EXCEPT ![t].ok = FALSE]
       /\ UNCHANGED << build, db_conn, dev, cfg, lock, regPtr, chipRegs, txnSeq, sleepLog, pc, call,
                       nCalls, ctor, wloc, enviro_phat, results, probe >>

\* transfer() has returned: every segment was executed or one failed.
\* The MutexGuard temporary is dropped at the end of the statement, before
\* the code that follows it runs.
TransferReturned(t) ==
    /\ xfer[t].phase = "held"
    /\ t \in lock
    /\ (~xfer[t].ok \/ xfer[t].idx > Len(xfer[t].msgs))

\* ------------------------------------------------- EnviroPHatV1::new (caller 0)
\* An error return of construction: the locals (a Bmp280 already built
\* included) are dropped and the caller receives the fault.
CtorFail(f) ==
    /\ pc' = [pc EXCEPT ![0] = "failed"]
    /\ xfer' = [xfer EXCEPT ![0] = NoXfer]
    /\ ctor' = NoCtor
    /\ results' = (0 :> Err(f)) @@ results
    /\ UNCHANGED enviro_phat

CtorStep(next, op, msgs) ==
    /\ pc' = [pc EXCEPT ![0] = next]
    /\ xfer' = [xfer EXCEPT ![0] = Begin(op, next, msgs)]
    /\ UNCHANGED << results, enviro_phat >>

\* LinuxI2CBus::new(i2c_bus_path)? succeeds; Bmp280::new starts with id_msgs.
OpenBus ==
    /\ pc[0] = "open"
    /\ CtorStep("bmp_id", "Bmp280::new", BmpIdMsgs)
    /\ UNCHANGED << build, db_conn, dev, cfg, lock, regPtr, chipRegs, busLog, txnSeq, sleepLog, call,
                    nCalls, faults, ctor, wloc, probe >>

\* LinuxI2CBus::new(i2c_bus_path)? fails.
OpenBusFault ==
    /\ pc[0] = "open"
    /\ faults < MaxFaults
    /\ faults' = faults + 1
    /\ CtorFail("TransportFault")
    /\ UNCHANGED << build, db_conn, dev, cfg, lock, regPtr, chipRegs, busLog, txnSeq, sleepLog, call,
                    nCalls, wloc, probe >>

\* Bmp280::new after the identity transfer.
BmpIdDone ==
    LET x == xfer[0]
    IN /\ pc[0] = "bmp_id"
       /\ TransferReturned(0)
       /\ lock' = GuardDropped(0)
       /\ IF TransferFailed(x) THEN CtorFail("TransportFault")
          ELSE IF ~BmpIdMatches(x.rbuf[1]) THEN CtorFail("UnexpectedDevice")
          ELSE CtorStep("bmp_calib", "Bmp280::new", BmpCalibMsgs) /\ UNCHANGED ctor
       /\ UNCHANGED << build, db_conn, dev, cfg, regPtr, chipRegs, busLog, txnSeq, sleepLog, call,
                       nCalls, faults, wloc, probe >>

\* Bmp280::new after the calibration transfer: decode, build the struct,
\* and enter reconfigure() with the constructor's arguments.
BmpCalibDone ==
    LET x == xfer[0]
    IN /\ pc[0] = "bmp_calib"
       /\ TransferReturned(0)
       /\ lock' = GuardDropped(0)
       /\ IF TransferFailed(x) THEN CtorFail("TransportFault")
          ELSE /\ ctor' = [ctor EXCEPT
                     !.calib = <<DecodeCalib(x.rbuf)>>,
                     !.bmp = << [ calib |-> DecodeCalib(x.rbuf),
                                  press_oversampling |-> cfg.press_os,
                                  temp_oversampling |-> cfg.temp_os,
                                  mode |-> cfg.mode ] >>]
               /\ CtorStep("bmp_cfg", "Bmp280::new",
                           ReconfigureMsgs(cfg.standby, cfg.iir, cfg.press_os,
                                           cfg.temp_os, cfg.mode))
       /\ UNCHANGED << build, db_conn, dev, cfg, regPtr, chipRegs, busLog, txnSeq, sleepLog, call,
                       nCalls, faults, wloc, probe >>

\* Bmp280::new after reconfigure(): Ok(bmp); Tcs3472::new starts with id_msgs.
BmpCfgDone ==
    LET x == xfer[0]
    IN /\ pc[0] = "bmp_cfg"
       /\ TransferReturned(0)
       /\ lock' = GuardDropped(0)
       /\ IF TransferFailed(x) THEN CtorFail("TransportFault")
          ELSE CtorStep("tcs_id", "Tcs3472::new", TcsIdMsgs) /\ UNCHANGED ctor
       /\ UNCHANGED << build, db_conn, dev, cfg, regPtr, chipRegs, busLog, txnSeq, sleepLog, call,
                       nCalls, faults, wloc, probe >>

\* Tcs3472::new after the identity transfer.
TcsIdDone ==
    LET x == xfer[0]
    IN /\ pc[0] = "tcs_id"
       /\ TransferReturned(0)
       /\ lock' = GuardDropped(0)
       /\ IF TransferFailed(x) THEN CtorFail("TransportFault")
          ELSE IF ~TcsIdMatches(x.rbuf[1]) THEN CtorFail("UnexpectedDevice")
          ELSE CtorStep("tcs_cfg", "Tcs3472::new", TcsConfigMsgs) /\ UNCHANGED ctor
       /\ UNCHANGED << build, db_conn, dev, cfg, regPtr, chipRegs, busLog, txnSeq, sleepLog, call,
                       nCalls, faults, wloc, probe >>

\* Tcs3472::new after the configuration transfer: Ok(Tcs3472), and
\* EnviroPHatV1::new returns Ok(EnviroPHatV1 { bmp, tcs }).
TcsCfgDone ==
    LET x == xfer[0]
    IN /\ pc[0] = "tcs_cfg"
       /\ TransferReturned(0)
       /\ lock' = GuardDropped(0)
       /\ IF TransferFailed(x) THEN CtorFail("TransportFault")
          ELSE /\ enviro_phat' = << [ backend |-> "v1", bmp |-> ctor.bmp[1],
                                      tcs |-> [comm_channel |-> "bus"] ] >>
               /\ results' = (0 :> Ok("EnviroPHatV1")) @@ results
               /\ pc' = [pc EXCEPT ![0] = "done"]
               /\ xfer' = [xfer EXCEPT ![0] = NoXfer]
               /\ ctor' = NoCtor
       /\ UNCHANGED << build, db_conn, dev, cfg, regPtr, chipRegs, busLog, txnSeq, sleepLog, call,
                       nCalls, faults, wloc, probe >>

\* --------------------------------------------- EnviroPHatV1::measure (workers)
\* Compensate is a pure function: its values for the registers of the
\* device fixtures are computed once.
DatasheetSample == Compensate(DecodeCalib(CalibDatasheet), DataSample)
ZeroP1Sample == Compensate(DecodeCalib(CalibZeroP1), DataSample)

\* Bmp280::query_press_and_temp: the value returned after the data transfer.
QueryPressAndTempResult(calib, x) ==
    IF TransferFailed(x) THEN Err("TransportFault")
    ELSE IF x.rbuf = DataSample /\ calib = DecodeCalib(CalibDatasheet) THEN Ok(DatasheetSample)
    ELSE IF x.rbuf = DataSample /\ calib = DecodeCalib(CalibZeroP1) THEN Ok(ZeroP1Sample)
    ELSE Ok(Compensate(calib, x.rbuf))

\* Tcs3472::query_light_level: the value returned after the transfer.
QueryLightLevelResult(x) ==
    IF TransferFailed(x) THEN Err("TransportFault") ELSE Ok(LightLevel(x.rbuf))

\* measure(): `let light_level = self.tcs.query_light_level()?;` and the
\* Measurement built from the two samples.
MeasureAssemble_Partial(pt, lr) ==
    [ tag |-> "Ok",
      val |-> [ pressure |-> pt.pressure, temperature |-> pt.temperature,
                light_level |-> IF lr.tag = "Err" THEN F32Zero ELSE lr.val ] ]
MeasureAssemble(pt, lr) ==
    IF lr.tag = "Err" THEN lr
    ELSE Ok([ pressure |-> pt.pressure, temperature |-> pt.temperature,
              light_level |-> lr.val ])

\* create_measurement_task: `let measurement = enviro_phat.measure()?;`
MeasureFailed_Ignored(r) == FALSE
MeasureFailed(r) == r.tag = "Err"

\* InsertableMeasurement::from(measurement): the row handed to the store
\* (meas_time is the wall clock and is left out; humidity is None).
InsertableMeasurement(c, m) ==
    [ call |-> c, temperature |-> <<m.temperature>>, pressure |-> <<m.pressure>>,
      humidity |-> <<>>, light_level |-> <<m.light_level>> ]

\* The call of t returns r and the thread is done: reconfigure returning,
\* or the task closure returning the fault of measure() through `?`.
Return(t, r) ==
    /\ results' = (call[t] :> r) @@ results
    /\ pc' = [pc EXCEPT ![t] = "returned"]
    /\ xfer' = [xfer EXCEPT ![t] = NoXfer]
    /\ wloc' = [wloc EXCEPT ![t] = <<>>]
    /\ call' = [call EXCEPT ![t] = 0]

\* A thread enters query_press_and_temp and passes its first comm.lock()
\* (a thread blocked there has touched nothing yet): the sample begins
\* with the trigger write unless the mode is Normal.  Threads that have
\* not started are interchangeable: the lowest-numbered one starts.
\* MeasureStart: a task calls measure() on the shared facade, which calls
\* query_press_and_temp first.
QueryPressAndTempStart(t) ==
    /\ pc[t] = "idle"
    /\ \A u \in Workers : pc[u] = "idle" => t <= u
    /\ MutexAvailable
    /\ lock' = lock \cup {t}
    /\ txnSeq' = txnSeq + 1
    /\ nCalls' = nCalls + 1
    /\ call' = [call EXCEPT ![t] = nCalls + 1]
    /\ LET b == enviro_phat[1].bmp
           first == IF NeedsTrigger(b.mode)
                    THEN Begin("query_press_and_temp", "trig", TriggerMsgs(b))
                    ELSE Begin("query_press_and_temp", "data", BmpDataMsgs)
       IN /\ pc' = [pc EXCEPT ![t] = first.stage]
          /\ xfer' = [xfer EXCEPT ![t] = [first EXCEPT !.phase = "held", !.tid = txnSeq + 1]]
    /\ UNCHANGED << build, db_conn, dev, cfg, regPtr, chipRegs, busLog, sleepLog, faults,
                    ctor, wloc, enviro_phat, results, probe >>

MeasureStart(t) == IsV1 /\ QueryPressAndTempStart(t)

\* query_press_and_temp after the trigger transfer: the guard is dropped at
\* the end of the transfer statement and `?` returns a fault; otherwise the
\* thread goes on, without the mutex, to compute the settle time.
TrigDone(t) ==
    LET x == xfer[t]
    IN /\ pc[t] = "trig"
       /\ TransferReturned(t)
       /\ lock' = GuardDropped(t)
       /\ IF TransferFailed(x)
          THEN Return(t, Err("TransportFault"))
          ELSE /\ pc' = [pc EXCEPT ![t] = "wait"]
               /\ xfer' = [xfer EXCEPT ![t] = NoXfer]
               /\ UNCHANGED << results, wloc, call >>
       /\ UNCHANGED << build, db_conn, dev, cfg, regPtr, chipRegs, busLog, txnSeq, sleepLog,
                       nCalls, faults, ctor, enviro_phat, probe >>

\* std::thread::sleep(Duration::from_millis(wait_time_ms)): the settle-time
\* sleep, entered with whatever other threads have put on the bus since the
\* guard was dropped; after it the data read is set up.
SettleSleep(t) ==
    LET b == enviro_phat[1].bmp
    IN /\ pc[t] = "wait"
       /\ sleepLog' = Append(sleepLog,
               [ call |-> call[t],
                 ms |-> WaitTimeMs(b.press_oversampling, b.temp_oversampling),
                 at |-> Len(busLog) ])
       /\ pc' = [pc EXCEPT ![t] = "data"]
       /\ xfer' = [xfer EXCEPT ![t] = Begin("query_press_and_temp", "data", BmpDataMsgs)]
       /\ UNCHANGED << build, db_conn, dev, cfg, lock, regPtr, chipRegs, busLog, txnSeq, nCalls,
                       faults, ctor, wloc, enviro_phat, results, call, probe >>

\* query_press_and_temp after the data transfer; on Ok measure() goes on
\* to query_light_level.
DataDone(t) ==
    LET x == xfer[t]
        r == QueryPressAndTempResult(enviro_phat[1].bmp.calib, x)
    IN /\ pc[t] = "data"
       /\ IsV1
       /\ TransferReturned(t)
       /\ lock' = GuardDropped(t)
       /\ IF r.tag = "Err"
          THEN Return(t, r)
          ELSE /\ wloc' = [wloc EXCEPT ![t] = <<r.val>>]
               /\ pc' = [pc EXCEPT ![t] = "light"]
               /\ xfer' = [xfer EXCEPT ![t] = Begin("query_light_level", "light", TcsLightMsgs)]
               /\ UNCHANGED << results, call >>
       /\ UNCHANGED << build, db_conn, dev, cfg, regPtr, chipRegs, busLog, txnSeq, sleepLog,
                       nCalls, faults, ctor, enviro_phat, probe >>

\* query_light_level after its transfer; measure() returns.
LightDone(t) ==
    LET x == xfer[t]
    IN /\ pc[t] = "light"
       /\ TransferReturned(t)
       /\ lock' = GuardDropped(t)
       /\ Return(t, MeasureAssemble(wloc[t][1], QueryLightLevelResult(x)))
       /\ UNCHANGED << build, db_conn, dev, cfg, regPtr, chipRegs, busLog, txnSeq, sleepLog,
                       nCalls, faults, ctor, enviro_phat, probe >>

\* ------------------------------------------------- Bmp280::reconfigure (workers)
\* A thread calls reconfigure(a) on the Bmp280 and passes its
\* comm_path.lock(): the two register writes are one transfer.
ReconfigureStart(t, a) ==
    /\ pc[t] = "idle"
    /\ \A u \in Workers : pc[u] = "idle" => t <= u
    /\ IsBmp280
    /\ MutexAvailable
    /\ lock' = lock \cup {t}
    /\ txnSeq' = txnSeq + 1
    /\ nCalls' = nCalls + 1
    /\ call' = [call EXCEPT ![t] = nCalls + 1]
    /\ pc' = [pc EXCEPT ![t] = "recfg"]
    /\ wloc' = [wloc EXCEPT ![t] = <<a>>]
    /\ xfer' = [xfer EXCEPT ![t] =
                  [ Begin("Bmp280::reconfigure", "recfg",
                          ReconfigureMsgs(a.standby, a.iir, a.press_os, a.temp_os, a.mode))
                    EXCEPT !.phase = "held", !.tid = txnSeq + 1 ]]
    /\ UNCHANGED << build, db_conn, dev, cfg, regPtr, chipRegs, busLog, sleepLog, faults,
                    ctor, enviro_phat, results, probe >>

\* reconfigure after its transfer: Ok(()) or the fault.  The method takes
\* &self and assigns no field of the Bmp280.
ReconfigureDone(t) ==
    LET x == xfer[t]
    IN /\ pc[t] = "recfg"
       /\ TransferReturned(t)
       /\ lock' = GuardDropped(t)
       /\ Return(t, IF TransferFailed(x) THEN Err("TransportFault") ELSE Ok("unit"))
       /\ UNCHANGED << build, db_conn, dev, cfg, regPtr, chipRegs, busLog, txnSeq, sleepLog,
                       nCalls, faults, ctor, enviro_phat, probe >>

\* ------------------------------------------------------------ EnviroPHatStub
\* EnviroPHatStub::new: no bus is opened, construction cannot fail.
StubNew ==
    /\ pc[0] = "open"
    /\ enviro_phat' = << [backend |-> "stub"] >>
    /\ results' = (0 :> Ok("EnviroPHatStub")) @@ results
    /\ pc' = [pc EXCEPT ![0] = "done"]
    /\ UNCHANGED << build, db_conn, dev, cfg, lock, regPtr, chipRegs, busLog, txnSeq, sleepLog, xfer,
                    call, nCalls, faults, ctor, wloc, probe >>

\* EnviroPHatStub::measure: returns the fixed Measurement.
StubMeasure(t) ==
    /\ pc[t] = "idle"
    /\ \A u \in Workers : pc[u] = "idle" => t <= u
    /\ IsStub
    /\ nCalls' = nCalls + 1
    /\ results' = ((nCalls + 1) :> Ok(StubMeasurement)) @@ results
    /\ pc' = [pc EXCEPT ![t] = "returned"]
    /\ UNCHANGED << build, db_conn, dev, cfg, lock, regPtr, chipRegs, busLog, txnSeq, sleepLog, xfer,
                    call, faults, ctor, wloc, enviro_phat, probe >>

Next ==
    \/ OpenBus
    \/ OpenBusFault
    \/ BmpIdDone
    \/ BmpCalibDone
    \/ BmpCfgDone
    \/ TcsIdDone
    \/ TcsCfgDone
    \/ \E t \in Callers : Lock(t)
    \/ \E t \in Callers : Segment(t)
    \/ \E t \in Callers : SegmentFault(t)
    \/ \E t \in Workers : MeasureStart(t)
    \/ \E t \in Workers : DataDone(t)
    \/ \E t \in Workers : LightDone(t)
    \/ StubNew
    \/ \E t \in Workers : StubMeasure(t)

Spec == Init /\ [][Next]_vars

\* The steps of caller t that are its own code running: taking the free
\* mutex, transferring the next segment, and the code after a transfer
\* statement.  Starting a call and a transport fault are not among them.
CallerStep(t) ==
    \/ Lock(t)
    \/ Segment(t)
    \/ /\ t = 0
       /\ (BmpIdDone \/ BmpCalibDone \/ BmpCfgDone \/ TcsIdDone \/ TcsCfgDone)
    \/ /\ t \in Workers
       /\ (DataDone(t) \/ LightDone(t))

\* Fair scheduling: while some thread can run, a thread is eventually run
\* (the OS scheduler; the settle-time sleep is bounded).
Progress == \E t \in Callers : CallerStep(t)

FairSpec == Spec /\ WF_vars(Progress)

\* ------------------------------------------- create_measurement_task (workers)
\* db_conn.lock().unwrap(): the task has its Measurement and takes the
\* guard of the connection when no other guard is alive.
DbLock(t) ==
    /\ pc[t] = "db_want"
    /\ db_conn.lock = {}
    /\ db_conn' = [db_conn EXCEPT !.lock = {t}]
    /\ pc' = [pc EXCEPT ![t] = "db_held"]
    /\ UNCHANGED << build, dev, cfg, lock, regPtr, chipRegs, busLog, txnSeq, sleepLog, xfer, call,
                    nCalls, faults, ctor, wloc, enviro_phat, results, probe >>

\* The closure returns r with the store holding `rows`: the guard
\* locked_db_conn is dropped on the way out.
TaskReturn(t, r, rows) ==
    /\ db_conn' = [lock |-> db_conn.lock \ {t}, rows |-> rows, ret |-> (call[t] :> r) @@ db_conn.ret]
    /\ pc' = [pc EXCEPT ![t] = "returned"]
    /\ call' = [call EXCEPT ![t] = 0]
    /\ UNCHANGED << build, dev, cfg, lock, regPtr, chipRegs, busLog, txnSeq, sleepLog, xfer,
                    nCalls, ctor, wloc, enviro_phat, results, probe >>

\* insert_into(measurements).values(&insertable).execute(..) succeeds:
\* the row is stored and the closure returns Ok(()).
DbInsert(t) ==
    /\ pc[t] = "db_held"
    /\ t \in db_conn.lock
    /\ UNCHANGED faults
    /\ TaskReturn(t, Ok("unit"),
                  db_conn.rows \cup {InsertableMeasurement(call[t], results[call[t]].val)})

\* execute(..) fails: `?` returns the error, no row is stored.
DbInsertFault(t) ==
    /\ pc[t] = "db_held"
    /\ t \in db_conn.lock
    /\ faults < MaxFaults
    /\ faults' = faults + 1
    /\ TaskReturn(t, Err("StoreFault"), db_conn.rows)

\* measure() has returned r inside the task closure: on Err the closure
\* returns it, on Ok it goes on to db_conn.lock().
MeasureReturned(t, r) ==
    IF MeasureFailed(r)
    THEN Return(t, r)
    ELSE /\ results' = (call[t] :> r) @@ results
         /\ pc' = [pc EXCEPT ![t] = "db_want"]
         /\ xfer' = [xfer EXCEPT ![t] = NoXfer]
         /\ wloc' = [wloc EXCEPT ![t] = <<>>]
         /\ UNCHANGED call

\* The task's measure() on the hardware facade returns after the transfer
\* of query_light_level.
TaskLightDone(t) ==
    LET x == xfer[t]
    IN /\ pc[t] = "light"
       /\ TransferReturned(t)
       /\ lock' = GuardDropped(t)
       /\ MeasureReturned(t, MeasureAssemble(wloc[t][1], QueryLightLevelResult(x)))
       /\ UNCHANGED << build, db_conn, dev, cfg, regPtr, chipRegs, busLog, txnSeq, sleepLog,
                       nCalls, faults, ctor, enviro_phat, probe >>

\* The task's measure() on the stub facade: the fixed Measurement.
TaskStubMeasure(t) ==
    /\ pc[t] = "idle"
    /\ \A u \in Workers : pc[u] = "idle" => t <= u
    /\ IsStub
    /\ nCalls' = nCalls + 1
    /\ call' = [call EXCEPT ![t] = nCalls + 1]
    /\ results' = ((nCalls + 1) :> Ok(StubMeasurement)) @@ results
    /\ pc' = [pc EXCEPT ![t] = "db_want"]
    /\ UNCHANGED << build, db_conn, dev, cfg, lock, regPtr, chipRegs, busLog, txnSeq, sleepLog, xfer,
                    faults, ctor, wloc, enviro_phat, probe >>

\* The program: main builds the facade and the tasks made by
\* create_measurement_task run measure() and then store the Measurement.
TaskNext ==
    \/ OpenBus
    \/ OpenBusFault
    \/ BmpIdDone
    \/ BmpCalibDone
    \/ BmpCfgDone
    \/ TcsIdDone
    \/ TcsCfgDone
    \/ \E t \in Callers : Lock(t)
    \/ \E t \in Callers : Segment(t)
    \/ \E t \in Callers : SegmentFault(t)
    \/ \E t \in Workers : MeasureStart(t)
    \/ \E t \in Workers : DataDone(t)
    \/ \E t \in Workers : TaskLightDone(t)
    \/ StubNew
    \/ \E t \in Workers : TaskStubMeasure(t)
    \/ \E t \in Workers : DbLock(t)
    \/ \E t \in Workers : DbInsert(t)
    \/ \E t \in Workers : DbInsertFault(t)

\* The tasks are explored on the datasheet device, in either build.
TaskInit == Init /\ dev = GoodDevice

TaskSpec == TaskInit /\ [][TaskNext]_vars

\* ------------------------------------------------ the Bmp280 driver on its own
\* Bmp280::new(comm_path, standby, iir, press_os, temp_os, mode) called with
\* any mode, and afterwards threads calling query_press_and_temp and
\* reconfigure on the Bmp280 it returned, through the shared bus handle.
DriverInit ==
    /\ build \in Builds
    /\ \E sc \in DriverScenarios : dev = sc.dev /\ cfg = sc.cfg
    /\ lock = {}
    /\ regPtr = 0
    /\ chipRegs = EmptyMap
    /\ busLog = <<>>
    /\ txnSeq = 0
    /\ sleepLog = <<>>
    /\ pc = [t \in Callers |-> IF t = 0 THEN "open" ELSE "idle"]
    /\ xfer = [t \in Callers |-> NoXfer]
    /\ call = [t \in Callers |-> 0]
    /\ nCalls = 0
    /\ faults = 0
    /\ ctor = NoCtor
    /\ wloc = [t \in Workers |-> <<>>]
    /\ enviro_phat = <<>>
    /\ results = EmptyMap
    /\ db_conn = NoDb
    /\ probe = NoProbe

\* Bmp280::new after reconfigure(): Ok(bmp) is returned to the caller.
BmpNewDone ==
    LET x == xfer[0]
    IN /\ pc[0] = "bmp_cfg"
       /\ TransferReturned(0)
       /\ lock' = GuardDropped(0)
       /\ IF TransferFailed(x) THEN CtorFail("TransportFault")
          ELSE /\ enviro_phat' = << [backend |-> "bmp280", bmp |-> ctor.bmp[1]] >>
               /\ results' = (0 :> Ok("Bmp280")) @@ results
               /\ pc' = [pc EXCEPT ![0] = "done"]
               /\ xfer' = [xfer EXCEPT ![0] = NoXfer]
               /\ ctor' = NoCtor
       /\ UNCHANGED << build, db_conn, dev, cfg, regPtr, chipRegs, busLog, txnSeq, sleepLog, call,
                       nCalls, faults, wloc, probe >>

\* A thread calls query_press_and_temp on the Bmp280.
SampleStart(t) == IsBmp280 /\ QueryPressAndTempStart(t)

\* query_press_and_temp after the data transfer: it returns to the caller.
SampleDone(t) ==
    LET x == xfer[t]
    IN /\ pc[t] = "data"
       /\ IsBmp280
       /\ TransferReturned(t)
       /\ lock' = GuardDropped(t)
       /\ Return(t, QueryPressAndTempResult(enviro_phat[1].bmp.calib, x))
       /\ UNCHANGED << build, db_conn, dev, cfg, regPtr, chipRegs, busLog, txnSeq, sleepLog,
                       nCalls, faults, ctor, enviro_phat, probe >>

DriverNext ==
    \/ OpenBus
    \/ BmpIdDone
    \/ BmpCalibDone
    \/ BmpNewDone
    \/ \E t \in Callers : Lock(t)
    \/ \E t \in Callers : Segment(t)
    \/ \E t \in Callers : SegmentFault(t)
    \/ \E t \in Workers : SampleStart(t)
    \/ \E t \in Workers : TrigDone(t)
    \/ \E t \in Workers : SettleSleep(t)
    \/ \E t \in Workers : SampleDone(t)
    \/ \E t \in Workers, a \in ReconfigureArgs : ReconfigureStart(t, a)
    \/ \E t \in Workers : ReconfigureDone(t)

DriverSpec == DriverInit /\ [][DriverNext]_vars

\* ------------------------------------------- light normalization on its own
\* query_light_level's conversion applied to two read buffers: every 2-byte
\* buffer, and the buffer of a raw code up to MaxGap higher.
ProbeIdle ==
    /\ build = "unoptimized"
    /\ dev = GoodDevice
    /\ cfg = FacadeArgs
    /\ lock = {}
    /\ regPtr = 0
    /\ chipRegs = EmptyMap
    /\ busLog = <<>>
    /\ txnSeq = 0
    /\ sleepLog = <<>>
    /\ pc = [t \in Callers |-> IF t = 0 THEN "open" ELSE "idle"]
    /\ xfer = [t \in Callers |-> NoXfer]
    /\ call = [t \in Callers |-> 0]
    /\ nCalls = 0
    /\ faults = 0
    /\ ctor = NoCtor
    /\ wloc = [t \in Workers |-> <<>>]
    /\ enviro_phat = <<>>
    /\ results = EmptyMap
    /\ db_conn = NoDb

LightInit ==
    /\ ProbeIdle
    /\ \E lo \in 0..U8_MAX, hi \in 0..U8_MAX, d \in 1..MaxGap :
          LET b == Min(hi * 256 + lo + d, U16_MAX)
          IN probe = [in |-> << <<lo, hi>>, <<b % 256, b \div 256>> >>, out |-> <<>>]

LightProbe ==
    /\ probe.in # <<>>
    /\ probe.out = <<>>
    /\ probe' = [probe EXCEPT !.out = << LightLevel(probe.in[1]), LightLevel(probe.in[2]) >>]
    /\ UNCHANGED << build, db_conn, dev, cfg, lock, regPtr, chipRegs, busLog, txnSeq, sleepLog, pc, xfer,
                    call, nCalls, faults, ctor, wloc, enviro_phat, results >>

LightNext == LightProbe

LightSpec == LightInit /\ [][LightNext]_vars

\* --------------------------------------------- calibration decode on its own
\* The coefficients of the datasheet example, in the order of the block:
\* dig_t1, dig_t2, dig_t3, dig_p1 .. dig_p9.
CoefDatasheet ==
    << 27504, 26435, 0 - 1000, 36477, 0 - 10685, 3024, 2855, 140, 0 - 7, 15500,
       0 - 14600, 6000 >>

\* Positions of the unsigned (u16) fields of CalibrationData.
CoefUnsigned == {1, 4}

\* 16-bit codes within CalibEdge of 0, of the byte carry 256, of the sign
\* bit 32768 and of 65535.
EdgeCodes ==
    { c \in 0..U16_MAX :
        \E a \in {0, 256, 32768, U16_MAX} : c - a <= CalibEdge /\ a - c <= CalibEdge }

\* The coefficient a code stands for at position k: the code itself for a
\* u16 field; for an i16 field the codes are spread over -32768..32767.
CoefOfCode(k, c) == IF k \in CoefUnsigned THEN c ELSE c - 32768

\* The chip's calibration block holding the coefficients: each one as two
\* bytes, low byte first, negative values in two's complement.
EncodeCalib(coefs) ==
    [ i \in 1..CALIB_DATA_SIZE |->
        LET v == coefs[(i + 1) \div 2]
            u == IF v < 0 THEN v + 65536 ELSE v
        IN IF i % 2 = 1 THEN u % 256 ELSE u \div 256 ]

\* The block Bmp280::new reads: the datasheet coefficients with two
\* neighbouring fields replaced by edge values.
CalibInit ==
    /\ ProbeIdle
    /\ \E k \in 1..11, c1 \in EdgeCodes, c2 \in EdgeCodes :
          LET coefs == [CoefDatasheet EXCEPT ![k] = CoefOfCode(k, c1),
                                             ![k + 1] = CoefOfCode(k + 1, c2)]
          IN probe = [in |-> << coefs, EncodeCalib(coefs) >>, out |-> <<>>]

\* Bmp280::new decodes the block it read.
CalibProbe ==
    /\ probe.in # <<>>
    /\ probe.out = <<>>
    /\ probe' = [probe EXCEPT !.out = << DecodeCalib(probe.in[2]) >>]
    /\ UNCHANGED << build, db_conn, dev, cfg, lock, regPtr, chipRegs, busLog, txnSeq, sleepLog, pc, xfer,
                    call, nCalls, faults, ctor, wloc, enviro_phat, results >>

CalibNext == CalibProbe

CalibSpec == CalibInit /\ [][CalibNext]_vars

\* ------------------------------------------------ raw data codes on their own
\* Byte values within RawEdge of 0, of the nibble carry 16, of the sign bit
\* 128 and of 255.
EdgeBytes ==
    { v \in 0..U8_MAX : \E a \in {0, 16, 128, U8_MAX} : v - a <= RawEdge /\ a - v <= RawEdge }

\* The same data block with the low four bits of bytes 2 and 5 (the
\* xlsb registers) cleared.
ClearLowNibbles(buf) ==
    [buf EXCEPT ![3] = (buf[3] \div 16) * 16, ![6] = (buf[6] \div 16) * 16]

\* The six bytes query_press_and_temp reads: the datasheet sample with the
\* three bytes of one channel (k = 0 pressure, k = 3 temperature) replaced,
\* the two upper bytes by edge values and the lowest by any byte.
RawInit ==
    /\ ProbeIdle
    /\ \E k \in {0, 3}, b0 \in EdgeBytes, b1 \in EdgeBytes, b2 \in 0..U8_MAX :
          LET buf == [DataSample EXCEPT ![k + 1] = b0, ![k + 2] = b1, ![k + 3] = b2]
          IN probe = [in |-> << buf, ClearLowNibbles(buf) >>, out |-> <<>>]

\* query_press_and_temp forms the raw codes of the block it read.
RawProbe ==
    /\ probe.in # <<>>
    /\ probe.out = <<>>
    /\ probe' = [probe EXCEPT !.out = << RawCodes(probe.in[1]), RawCodes(probe.in[2]) >>]
    /\ UNCHANGED << build, db_conn, dev, cfg, lock, regPtr, chipRegs, busLog, txnSeq, sleepLog, pc, xfer,
                    call, nCalls, faults, ctor, wloc, enviro_phat, results >>

RawNext == RawProbe

RawSpec == RawInit /\ [][RawNext]_vars

\* ================================================================ claims
LogIdx == DOMAIN busLog

\* The last (read) segment of the transfer of `stage` in call c succeeded.
StageOk(c, stage) ==
    \E i \in LogIdx :
        /\ busLog[i].call = c
        /\ busLog[i].stage = stage
        /\ busLog[i].ok
        /\ busLog[i].seg = 2

\* The bytes read by the transfer of `stage` in call c.
StageRead(c, stage) ==
    LET i == CHOOSE k \in LogIdx :
                 /\ busLog[k].call = c
                 /\ busLog[k].stage = stage
                 /\ busLog[k].rw = "r"
                 /\ busLog[k].ok
    IN busLog[i].bytes

CallFailed(c) == \E i \in LogIdx : busLog[i].call = c /\ ~busLog[i].ok

\* Call c is a measure() call of the hardware facade.
MeasureCall(c) ==
    /\ c # 0
    /\ IsV1
    /\ \A i \in LogIdx : busLog[i].call = c => busLog[i].op # "Bmp280::reconfigure"

\* C1: in the recorded segment order, the segments of one transfer() are
\* contiguous: between two segments of a transaction there is no segment of
\* another transaction, and all its segments come from one caller.
C1_SegmentsContiguous ==
    \A j \in LogIdx : \A i \in 1..(j - 1) :
        busLog[i].tid = busLog[j].tid =>
            /\ busLog[j - 1].tid = busLog[i].tid
            /\ busLog[j].caller = busLog[i].caller

\* C1 witness: a measure() caller is between the two segments of its
\* transaction while another caller wants the bus.
C1_Witness ==
    \E t, u \in Workers :
        /\ t # u
        /\ xfer[t].phase = "held"
        /\ xfer[t].idx = 2
        /\ xfer[u].phase = "want"

\* C2: a caller holds the bus lock only while its transfer statement is
\* executing; once the statement has returned, with Ok or with a fault,
\* the caller is not a holder, and nobody holds it when no transfer runs.
C2_LockReleased ==
    /\ \A t \in Callers : xfer[t].phase # "held" => t \notin lock
    /\ Cardinality(lock) <= 1

\* C2 witness: a transfer failed, and afterwards another caller's transfer
\* ran on the bus.
C2_Witness ==
    \E i, j \in LogIdx :
        /\ i < j
        /\ ~busLog[i].ok
        /\ busLog[j].caller # busLog[i].caller
        /\ busLog[j].caller \in Workers
        /\ busLog[i].caller \in Workers

\* C3: measure() returns Ok exactly when both samples of the call
\* succeeded, the Measurement then holds the values computed from the bytes
\* the call read; otherwise it returns the transport fault and no
\* Measurement.
C3_MeasureAllOrNothing ==
    \A c \in DOMAIN results : MeasureCall(c) =>
        LET bothOk == StageOk(c, "data") /\ StageOk(c, "light")
            r == results[c]
            lb == StageRead(c, "light")
            db == StageRead(c, "data")
        IN /\ r.tag = "Ok" <=> bothOk
           /\ r.tag = "Ok" =>
                /\ r.val.light_level = F32Div(U16LE(lb[1], lb[2]), U16_MAX)
                /\ r.val.pressure.raw = Raw20(db[1], db[2], db[3])
                /\ r.val.temperature.raw = Raw20(db[4], db[5], db[6])
           /\ r.tag = "Err" => (r = Err("TransportFault") /\ CallFailed(c))

\* C3 witness: a call whose pressure/temperature sample succeeded and whose
\* light sample failed has returned.
C3_Witness ==
    \E c \in DOMAIN results :
        /\ MeasureCall(c)
        /\ StageOk(c, "data")
        /\ \E i \in LogIdx : busLog[i].call = c /\ busLog[i].stage = "light" /\ ~busLog[i].ok

\* The identity byte Bmp280::new read differs from 0x58.
BmpIdReadWrong(i) ==
    /\ busLog[i].stage = "bmp_id"
    /\ busLog[i].rw = "r"
    /\ busLog[i].ok
    /\ busLog[i].bytes[1] # BMP_CHIP_ID_EXPECTED

\* C4: when the identity byte read by Bmp280::new differs from 0x58,
\* construction ends with the unexpected-device fault and the identity
\* read is the last segment on the bus: no calibration read, no
\* configuration write.
C4_WrongBmpIdFails ==
    \A i \in LogIdx :
        BmpIdReadWrong(i) =>
            /\ i = Len(busLog)
            /\ enviro_phat = <<>>
            /\ pc[0] \in {"bmp_id", "failed"}
            /\ pc[0] = "failed" => (0 \in DOMAIN results /\ results[0] = Err("UnexpectedDevice"))

\* C4 witness: Bmp280::new has returned after reading a foreign identity byte.
C4_Witness ==
    /\ pc[0] = "failed"
    /\ \E i \in LogIdx : BmpIdReadWrong(i)

\* Every segment of the construction transfer `stage` succeeded.
CtorStageOk(stage) ==
    /\ StageOk(0, stage)
    /\ \A i \in LogIdx : busLog[i].stage = stage => busLog[i].ok

\* C5: the facade exists only after both identities were verified, the
\* calibration was read and decoded into the driver, and both
\* configuration transactions were carried out to their last write
\* segment; when construction has returned a fault there is no facade and
\* no driver value left.
C5_ConstructionAtomic ==
    /\ IsV1 =>
        /\ \A st \in {"bmp_id", "bmp_calib", "bmp_cfg", "tcs_id", "tcs_cfg"} : CtorStageOk(st)
        /\ StageRead(0, "bmp_id") = <<BMP_CHIP_ID_EXPECTED>>
        /\ StageRead(0, "tcs_id") = <<TCS_CHIP_ID_EXPECTED>>
        /\ enviro_phat[1].bmp.calib.dig_t1 =
               StageRead(0, "bmp_calib")[2] * 256 + StageRead(0, "bmp_calib")[1]
        /\ \A st \in {"bmp_cfg", "tcs_cfg"} :
               \E i \in LogIdx : /\ busLog[i].stage = st
                                 /\ busLog[i].rw = "w"
                                 /\ busLog[i].seg = 2
                                 /\ busLog[i].ok
        /\ 0 \in DOMAIN results /\ results[0].tag = "Ok"
    /\ (CallFailed(0) /\ pc[0] \in {"failed", "done"}) =>
        (pc[0] = "failed" /\ results[0] = Err("TransportFault"))
    /\ pc[0] = "failed" =>
        (enviro_phat = <<>> /\ ctor = NoCtor /\ results[0].tag = "Err")

\* C5 witness: construction failed in its last transaction, after the
\* Bmp280 had been built and configured.
C5_Witness ==
    /\ pc[0] = "failed"
    /\ CtorStageOk("bmp_cfg")
    /\ \E i \in LogIdx : busLog[i].stage = "tcs_cfg" /\ ~busLog[i].ok

\* C6: within one call (a construction or a measure()), every transaction
\* is attempted at most once, a failed segment is the last segment the
\* call puts on the bus, and a call that has returned after a failed
\* transfer returned the transport fault.
C6_NoRetryNoContinue ==
    /\ \A j \in LogIdx : \A i \in 1..(j - 1) :
          busLog[i].call = busLog[j].call =>
              /\ busLog[i].stage = busLog[j].stage => busLog[i].tid = busLog[j].tid
              /\ busLog[i].ok
    /\ \A c \in DOMAIN results : CallFailed(c) => results[c] = Err("TransportFault")

\* C6 witness: a measure() call whose data transaction failed has
\* returned, and a later call used the bus.
C6_Witness ==
    \E i, j \in LogIdx :
        /\ i < j
        /\ ~busLog[i].ok
        /\ busLog[i].stage = "data"
        /\ busLog[i].call \in DOMAIN results
        /\ busLog[j].call # busLog[i].call

\* Two log entries of one driver operation of one call.
SameOperation(i, j) ==
    /\ busLog[i].call = busLog[j].call
    /\ busLog[i].op = busLog[j].op

\* C7 as claimed: between two segments of the same driver operation there
\* is no segment of another caller.
C7_OperationUninterrupted ==
    \A j \in LogIdx : \A i \in 1..(j - 1) :
        SameOperation(i, j) =>
            \A k \in (i + 1)..(j - 1) : busLog[k].caller = busLog[i].caller

\* C7 amended: another caller's segments appear inside a driver operation
\* only between the trigger transaction and the data transaction of a
\* non-Normal-mode sample, where the lock is free during the settle
\* time; construction and every single transaction are uninterrupted.
C7_InterruptedOnlyBetweenTriggerAndData ==
    \A j \in LogIdx : \A i \in 1..(j - 1) :
        SameOperation(i, j) =>
            \/ \A k \in (i + 1)..(j - 1) : busLog[k].caller = busLog[i].caller
            \/ /\ busLog[i].op = "query_press_and_temp"
               /\ busLog[i].stage = "trig"
               /\ busLog[j].stage = "data"
               /\ enviro_phat[1].bmp.mode # "Normal"

\* C7 witness: another caller's segment lies between the trigger write and
\* the data read of one sample.
C7_Witness ==
    \E i, j, k \in LogIdx :
        /\ i < k /\ k < j
        /\ SameOperation(i, j)
        /\ busLog[i].stage = "trig"
        /\ busLog[j].stage = "data"
        /\ busLog[k].caller # busLog[i].caller

\* C8 as claimed: with dig_p1 = 0 a sample whose data read succeeded
\* returns the InvalidCalibration fault, and no sample returns Ok with a
\* non-finite pressure.
C8_ZeroP1Guarded ==
    (IsV1 /\ enviro_phat[1].bmp.calib.dig_p1 = 0) =>
        /\ \A t \in Workers : wloc[t] = <<>>
        /\ \A c \in DOMAIN results \ {0} :
              StageOk(c, "data") => results[c] = Err("InvalidCalibration")

\* The oversampling multiplier an Oversampling value stands for.
OversamplingFactor(o) ==
    CASE o = "Mult1X" -> 1
      [] o = "Mult2X" -> 2
      [] o = "Mult4X" -> 4
      [] o = "Mult8X" -> 8
      [] o = "Mult16X" -> 16

\* ceil(2.2 * p + 4.3 * t + 2.0), in tenths
SettleFormula(p, t) == (22 * p + 43 * t + 20 + 9) \div 10

\* C9 as claimed: every settle-time sleep lasts
\* ceil(2.2 * pressure factor + 4.3 * temperature factor + 2.0) ms, 45 ms
\* for 16x / 2x.
C9_SettleTimeFromFactors ==
    \A i \in DOMAIN sleepLog :
        LET b == enviro_phat[1].bmp
        IN /\ sleepLog[i].ms = SettleFormula(OversamplingFactor(b.press_oversampling),
                                             OversamplingFactor(b.temp_oversampling))
           /\ (b.press_oversampling = "Mult16X" /\ b.temp_oversampling = "Mult2X") =>
                  sleepLog[i].ms = 45

\* The little-endian raw code of a read buffer (low byte first).
RawCodeLE(buf) == buf[2] * 256 + buf[1]

\* C10: the normalized value of raw code 0 is 0.0, of 65535 is 1.0, every
\* value lies in [0.0, 1.0], and of two raw codes a < b the value of a is
\* strictly less than the value of b.
C10_LightNormalization ==
    probe.out # <<>> =>
        LET a == RawCodeLE(probe.in[1])
            b == RawCodeLE(probe.in[2])
        IN /\ a = 0 <=> probe.out[1] = F32Zero
           /\ a = U16_MAX <=> probe.out[1] = F32One
           /\ b = U16_MAX <=> probe.out[2] = F32One
           /\ ~F32Less(F32One, probe.out[1]) /\ ~F32Less(F32One, probe.out[2])
           /\ a < b => F32Less(probe.out[1], probe.out[2])

\* C10 witness: two adjacent raw codes across a byte boundary were normalized.
C10_Witness ==
    /\ probe.out # <<>>
    /\ RawCodeLE(probe.in[1]) = 255
    /\ RawCodeLE(probe.in[2]) = 256

\* C11: decoding the little-endian block of twelve coefficients gives back
\* exactly the twelve coefficients, negative ones included.
C11_CalibRoundTrip ==
    probe.out # <<>> =>
        LET c == probe.in[1]
            d == probe.out[1]
        IN << d.dig_t1, d.dig_t2, d.dig_t3, d.dig_p1, d.dig_p2, d.dig_p3, d.dig_p4,
              d.dig_p5, d.dig_p6, d.dig_p7, d.dig_p8, d.dig_p9 >> = c

\* C11 witness: a block with dig_t1 = 65535 and dig_t2 = -1 was decoded.
C11_Witness ==
    /\ probe.out # <<>>
    /\ probe.in[1][1] = U16_MAX
    /\ probe.in[1][2] = 0 - 1

\* C12 as claimed: the light_level of every Measurement a measure() call
\* returned, from either backend, lies in [0.0, 1.0].
C12_LightLevelInUnitRange ==
    \A c \in DOMAIN results \ {0} :
        ((MeasureCall(c) \/ IsStub) /\ results[c].tag = "Ok") =>
            /\ ~F32Less(results[c].val.light_level, F32Zero)
            /\ ~F32Less(F32One, results[c].val.light_level)

\* C13: a caller asks for the bus mutex only when it does not hold it, and
\* again and again the mutex is free with no call in progress: a held
\* mutex is released (so a call waiting at its first lock() gets it) and
\* every call that has begun returns.
C13_NoReentryDeadlockFree ==
    /\ [](\A t \in Callers : xfer[t].phase = "want" => t \notin lock)
    /\ []<>(lock = {} /\ \A t \in Workers : pc[t] \in {"idle", "returned"})

\* C13 witness: every task has returned from its call, one of them after a
\* transport fault, and one call waited for the bus between its two
\* transactions while another used it.
C13_Witness ==
    /\ \A t \in Workers : pc[t] = "returned"
    /\ \E i \in LogIdx : busLog[i].caller \in Workers /\ ~busLog[i].ok
    /\ \E i, j \in LogIdx :
          /\ i + 1 < j
          /\ busLog[i].call = busLog[j].call
          /\ busLog[i + 1].call # busLog[i].call

\* The trigger segments and the settle-time sleeps of call c.
TrigEntries(c) == {j \in LogIdx : busLog[j].call = c /\ busLog[j].stage = "trig"}
SleepsOf(c) == {k \in DOMAIN sleepLog : sleepLog[k].call = c}

\* C14 (as stated): a data read of a sample whose driver is not in Normal mode comes
\* after a successful write of the control register with the Forced mode
\* bits and the driver's oversampling bits, and after the settle-time sleep
\* that follows this write; in Normal mode the sample has no trigger write
\* and no sleep.  A sample whose trigger write failed reads no data, and
\* nothing sleeps except after a successful trigger write.
C14_TriggerWaitRead ==
    IsBmp280 =>
        LET b == enviro_phat[1].bmp
            ctrl == OversamplingCode(b.temp_oversampling) * 32
                    + OversamplingCode(b.press_oversampling) * 4 + 1
        IN /\ \A i \in LogIdx :
                  busLog[i].stage = "data" =>
                      LET c == busLog[i].call
                      IN /\ \A j \in TrigEntries(c) : busLog[j].ok
                         /\ IF b.mode = "Normal"
                            THEN TrigEntries(c) = {} /\ SleepsOf(c) = {}
                            ELSE \E j \in TrigEntries(c) :
                                     /\ j < i
                                     /\ busLog[j].rw = "w"
                                     /\ busLog[j].bytes = <<CTRL_MEAS_REG_ADDR, ctrl>>
                                     /\ \E k \in SleepsOf(c) :
                                            /\ j <= sleepLog[k].at
                                            /\ sleepLog[k].at < i
                                            /\ sleepLog[k].ms =
                                                   WaitTimeMs(b.press_oversampling,
                                                              b.temp_oversampling)
                                            /\ sleepLog[k].ms > 0
           /\ \A k \in DOMAIN sleepLog :
                  \E j \in TrigEntries(sleepLog[k].call) :
                      j <= sleepLog[k].at /\ busLog[j].ok

\* C14 witness: a driver in Sleep mode has read the six data bytes of one
\* sample after trigger and sleep, and another sample stopped at a failed
\* trigger write.
C14_Witness ==
    /\ IsBmp280
    /\ enviro_phat[1].bmp.mode = "Sleep"
    /\ \E i \in LogIdx :
           /\ busLog[i].stage = "data"
           /\ busLog[i].rw = "r"
           /\ busLog[i].ok
           /\ Len(busLog[i].bytes) = DATA_REG_SIZE
           /\ SleepsOf(busLog[i].call) # {}
    /\ \E j \in LogIdx :
           /\ busLog[j].stage = "trig"
           /\ ~busLog[j].ok
           /\ busLog[j].call \in DOMAIN results

\* The control-register writes of the reconfigure() calls that returned Ok,
\* the one made by Bmp280::new included (`src` holds the bytes reconfigure
\* computed from its arguments).
AppliedConfigs ==
    { i \in LogIdx : /\ busLog[i].stage \in {"bmp_cfg", "recfg"}
                     /\ busLog[i].seg = 1
                     /\ busLog[i].call \in DOMAIN results
                     /\ results[busLog[i].call].tag = "Ok" }

\* The control byte that the fields stored in the Bmp280 stand for.
StoredCtrl ==
    LET b == enviro_phat[1].bmp
    IN OversamplingCode(b.temp_oversampling) * 32
       + OversamplingCode(b.press_oversampling) * 4 + ModeCode(b.mode)

\* C15 (as stated): the press_oversampling, temp_oversampling and mode held
\* by the driver are those of the most recent successful reconfigure call,
\* i.e. those last written to the control register by reconfigure.
C15_StoredConfigIsLastApplied ==
    IsBmp280 =>
        \A i \in AppliedConfigs :
            (\A j \in AppliedConfigs : j <= i) =>
                busLog[i].src = <<CTRL_MEAS_REG_ADDR, StoredCtrl>>

\* The two register bytes reconfigure() writes for the arguments a.
CtrlByte(a) ==
    OversamplingCode(a.temp_os) * 32 + OversamplingCode(a.press_os) * 4 + ModeCode(a.mode)
ConfigByte(a) == StandbyTimeCode(a.standby) * 32 + IIRCoeficientCode(a.iir) * 4

\* The segments a reconfigure() with arguments a may have put on the bus
\* as segment number seg.
ReconfigureSegment(e, a) ==
    /\ e.rw = "w"
    /\ e.addr = BMP_I2C_ADDR
    /\ e.seg \in {1, 2}
    /\ e.ok => e.bytes = IF e.seg = 1 THEN <<CTRL_MEAS_REG_ADDR, CtrlByte(a)>>
                         ELSE <<CONFIG_REG_ADDR, ConfigByte(a)>>

\* The chip registers after a whole successful reconfigure(a).
AfterReconfigure(regs, a) ==
    LET msgs == ReconfigureMsgs(a.standby, a.iir, a.press_os, a.temp_os, a.mode)
    IN WriteEffect(WriteEffect(regs, "w", msgs[1].bytes), "w", msgs[2].bytes)

\* The configuration fields held by the Bmp280.
StoredConfig ==
    LET b == enviro_phat[1].bmp
    IN [press_os |-> b.press_oversampling, temp_os |-> b.temp_oversampling, mode |-> b.mode]

\* C16 (as stated): reconfigure puts on the bus the control-register write
\* (temp<<5 | press<<2 | mode) and then the config-register write
\* (standby<<5 | filter<<2), both segments of one transfer, and a
\* reconfigure call issues nothing else (no identity or calibration
\* transaction).  Right after its second segment the two chip registers
\* hold exactly these bytes and applying the same arguments again changes
\* no chip register; the driver's configuration fields stay the ones it
\* was constructed with.
C16_ReconfigureTwoWritesIdempotent ==
    /\ \A i \in LogIdx :
           busLog[i].stage = "bmp_cfg" => ReconfigureSegment(busLog[i], cfg)
    /\ \A t \in Workers :
           pc[t] = "recfg" =>
               \A i \in LogIdx :
                   busLog[i].call = call[t] =>
                       /\ busLog[i].stage = "recfg"
                       /\ busLog[i].tid = xfer[t].tid
                       /\ ReconfigureSegment(busLog[i], wloc[t][1])
                       /\ (busLog[i].seg = 2 /\ busLog[i].ok /\ i = Len(busLog)) =>
                              /\ busLog[i - 1].tid = busLog[i].tid
                              /\ busLog[i - 1].seg = 1
                              /\ chipRegs[CTRL_MEAS_REG_ADDR] = <<CtrlByte(wloc[t][1])>>
                              /\ chipRegs[CONFIG_REG_ADDR] = <<ConfigByte(wloc[t][1])>>
                              /\ AfterReconfigure(chipRegs, wloc[t][1]) = chipRegs
    /\ \A i \in LogIdx :
           busLog[i].op = "Bmp280::reconfigure" => busLog[i].stage = "recfg"
    /\ IsBmp280 => StoredConfig = [press_os |-> cfg.press_os, temp_os |-> cfg.temp_os,
                                    mode |-> cfg.mode]

\* C16 witness: reconfigure was called with the arguments of an earlier
\* successful reconfigure and has just transferred its second segment; a
\* different configuration was applied in between.
C16_Witness ==
    \E t \in Workers :
        /\ pc[t] = "recfg"
        /\ busLog # <<>>
        /\ busLog[Len(busLog)].call = call[t]
        /\ busLog[Len(busLog)].seg = 2
        /\ busLog[Len(busLog)].ok
        /\ \E i \in AppliedConfigs :
               /\ busLog[i].bytes = <<CTRL_MEAS_REG_ADDR, CtrlByte(wloc[t][1])>>
               /\ \E j \in AppliedConfigs : i < j /\ busLog[j].bytes # busLog[i].bytes

\* The identity byte Tcs3472::new read, if its identity transfer succeeded.
TcsIdReads == {j \in LogIdx : busLog[j].stage = "tcs_id" /\ busLog[j].rw = "r" /\ busLog[j].ok}

\* C17 (as stated): Tcs3472::new first selects and reads the identity register; the
\* configuration is written only after the expected identity was read, and
\* a different identity makes construction fail with the unexpected-device
\* fault.  The configuration is one transaction of two write segments:
\* enable register with auto-increment carrying power-on | integration-enable
\* and the timing byte 255 - 64, then the gain register.  A facade exists
\* only after that transaction succeeded.
C17_TcsNewIdentityThenConfig ==
    /\ \A i \in LogIdx :
           busLog[i].stage = "tcs_id" =>
               /\ busLog[i].addr = TCS_I2C_ADDR
               /\ busLog[i].seg = 1 =>
                      busLog[i].rw = "w" /\ (busLog[i].ok => busLog[i].bytes = <<146>>)
               /\ busLog[i].seg = 2 =>
                      busLog[i].rw = "r" /\ (busLog[i].ok => Len(busLog[i].bytes) = 1)
    /\ \A i \in LogIdx :
           busLog[i].stage = "tcs_cfg" =>
               /\ \E j \in TcsIdReads : j < i /\ busLog[j].bytes = <<TCS_CHIP_ID_EXPECTED>>
               /\ busLog[i].rw = "w"
               /\ busLog[i].addr = TCS_I2C_ADDR
               /\ busLog[i].seg \in {1, 2}
               /\ (busLog[i].seg = 1 /\ busLog[i].ok) => busLog[i].bytes = <<160, 3, 191>>
               /\ busLog[i].seg = 2 =>
                      /\ busLog[i - 1].tid = busLog[i].tid
                      /\ busLog[i - 1].seg = 1
                      /\ busLog[i].ok => busLog[i].bytes = <<143, 0>>
    /\ \A j \in TcsIdReads :
           busLog[j].bytes # <<TCS_CHIP_ID_EXPECTED>> =>
               /\ \A i \in LogIdx : busLog[i].stage # "tcs_cfg"
               /\ pc[0] \in {"tcs_id", "failed"}
               /\ pc[0] = "failed" => results[0] = Err("UnexpectedDevice")
    /\ IsV1 => \E i \in LogIdx :
                   busLog[i].stage = "tcs_cfg" /\ busLog[i].seg = 2 /\ busLog[i].ok
    /\ (\E i \in LogIdx : busLog[i].stage = "tcs_cfg" /\ ~busLog[i].ok) =>
           /\ ~IsV1
           /\ pc[0] = "failed" => results[0] = Err("TransportFault")

\* C17 witness: the identity matched, both configuration segments were
\* transferred and Tcs3472::new returned the driver.
C17_Witness ==
    /\ IsV1
    /\ results[0].tag = "Ok"
    /\ \E i \in LogIdx :
           /\ busLog[i].stage = "tcs_cfg"
           /\ busLog[i].seg = 2
           /\ busLog[i].ok
           /\ busLog[i].op = "Tcs3472::new"

\* C18: the raw pressure code of a 6-byte data block is
\* b0 * 2^12 + b1 * 2^4 + (b2 div 16) and the raw temperature code is the
\* same of b3, b4, b5; as 32-bit signed integers both are within 0..1048575,
\* and clearing the low four bits of b2 and b5 gives the same two codes.
C18_RawCodes20Bit ==
    probe.out # <<>> =>
        LET b == probe.in[1]
            r == probe.out[1]
        IN /\ r.raw_press = b[1] * 4096 + b[2] * 16 + b[3] \div 16
           /\ r.raw_temp = b[4] * 4096 + b[5] * 16 + b[6] \div 16
           /\ r.raw_press \in 0..1048575
           /\ r.raw_temp \in 0..1048575
           /\ probe.out[2] = r

\* C18 witness: the codes were formed from a block whose pressure bytes
\* give the largest code and have the low bits of b2 set.
C18_Witness ==
    /\ probe.out # <<>>
    /\ probe.in[1][3] % 16 # 0
    /\ probe.in[2] # probe.in[1]
    /\ probe.out[1].raw_press = 1048575

\* The successful reads of the calibration block: a read segment of the
\* pressure driver that follows the select of the calibration registers.
CalibReads ==
    { i \in LogIdx : /\ busLog[i].rw = "r"
                     /\ busLog[i].ok
                     /\ busLog[i].op \in {"Bmp280::new", "Bmp280::reconfigure",
                                          "query_press_and_temp"}
                     /\ busLog[i - 1].tid = busLog[i].tid
                     /\ busLog[i - 1].bytes = <<CALIB_REG_ADDR>> }

\* The calibration block is read by Bmp280::new only, in one transaction,
\* and the driver holds the coefficients decoded from it.
CalibReadOnce ==
    /\ \A i \in CalibReads :
           /\ busLog[i].op = "Bmp280::new"
           /\ busLog[i].stage = "bmp_calib"
           /\ busLog[i].call = 0
    /\ \A i, j \in CalibReads : i = j
    /\ IsBmp280 => \E i \in CalibReads : enviro_phat[1].bmp.calib = DecodeCalib(busLog[i].bytes)

\* C19: CalibrationData is read once, by Bmp280::new, and no step of a
\* sample or of a reconfigure call, successful or failed, changes the
\* stored coefficients or reads the calibration block again.
C19_CalibReadOnceImmutable ==
    /\ []CalibReadOnce
    /\ [][IsBmp280 => IsBmp280' /\ enviro_phat'[1].bmp.calib = enviro_phat[1].bmp.calib]_vars

\* C19 witness: on a constructed driver one sample returned its values
\* and another operation returned a fault.
C19_Witness ==
    /\ IsBmp280
    /\ CalibReads # {}
    /\ \E c \in DOMAIN results : c # 0 /\ StageOk(c, "data") /\ results[c].tag = "Ok"
    /\ \E c \in DOMAIN results : c # 0 /\ results[c].tag = "Err"

\* The operations of the light driver and of the pressure driver.
TcsOps == {"Tcs3472::new", "query_light_level"}
BmpOps == {"Bmp280::new", "Bmp280::reconfigure", "query_press_and_temp"}

\* C20 (as stated): no segment issued by the light driver carries the
\* device address that a segment of the pressure driver carries, and the
\* other way round: the two drivers address distinct devices.
C20_DriversAddressDistinctDevices ==
    \A i, j \in LogIdx :
        (busLog[i].op \in TcsOps /\ busLog[j].op \in BmpOps) =>
            busLog[i].addr # busLog[j].addr

\* The steps of the program's threads that are their own code running.
TaskProgress ==
    \E t \in Callers :
        \/ Lock(t)
        \/ Segment(t)
        \/ /\ t = 0
           /\ (BmpIdDone \/ BmpCalibDone \/ BmpCfgDone \/ TcsIdDone \/ TcsCfgDone)
        \/ /\ t \in Workers
           /\ (DataDone(t) \/ TaskLightDone(t) \/ DbLock(t) \/ DbInsert(t))

\* Task t is in the store part of its closure.
AtStore(t) == pc[t] \in {"db_want", "db_held"}

\* C21: a row of the store belongs to a task whose measure() returned a
\* Measurement and carries that Measurement's values; a task whose
\* measure() failed has returned the fault without reaching the store.  A
\* task asks for or holds the database guard only while it neither holds
\* nor asks for the bus guard, so the tasks never wait for each other in a
\* cycle: while a task is under way, some thread can take a step.
C21_InsertAfterMeasureNoTwoLocks ==
    /\ \A row \in db_conn.rows :
           /\ row.call \in DOMAIN results
           /\ results[row.call].tag = "Ok"
           /\ row.pressure = <<results[row.call].val.pressure>>
           /\ row.temperature = <<results[row.call].val.temperature>>
           /\ row.light_level = <<results[row.call].val.light_level>>
           /\ row.call \in DOMAIN db_conn.ret
           /\ db_conn.ret[row.call] = Ok("unit")
    /\ \A c \in DOMAIN db_conn.ret :
           /\ c \in DOMAIN results
           /\ results[c].tag = "Ok"
           /\ db_conn.ret[c].tag = "Ok" <=> \E row \in db_conn.rows : row.call = c
    /\ \A c \in DOMAIN results :
           (c # 0 /\ results[c].tag = "Err") =>
               /\ c \notin DOMAIN db_conn.ret
               /\ \A row \in db_conn.rows : row.call # c
               /\ \A t \in Workers : call[t] # c
    /\ \A t \in Workers :
           /\ AtStore(t) =>
                  /\ t \notin lock
                  /\ xfer[t].phase = "none"
                  /\ call[t] \in DOMAIN results
                  /\ results[call[t]].tag = "Ok"
           /\ t \in db_conn.lock <=> pc[t] = "db_held"
           /\ ~(t \in lock /\ t \in db_conn.lock)
    /\ \A t, u \in db_conn.lock : t = u
    /\ (\E t \in Workers : pc[t] \notin {"idle", "returned"}) => ENABLED TaskProgress

\* C21 witness: one task holds the database guard with its Measurement,
\* not yet inserted, while another task holds the bus guard in the middle
\* of a transaction.
C21_Witness ==
    \E t, u \in Workers :
        /\ t # u
        /\ t \in db_conn.lock
        /\ results[call[t]].tag = "Ok"
        /\ u \in lock
        /\ xfer[u].idx = 2
        /\ \A row \in db_conn.rows : row.call # call[t]

\* The bus segments issued by measure() calls.
MeasureOps == {"query_press_and_temp", "query_light_level"}
MeasureEntries == {i \in LogIdx : busLog[i].op \in MeasureOps}

\* C22: with the arguments EnviroPHatV1::new passes, the pressure driver
\* is in Normal mode and stays so; a measure() call writes no trigger and
\* never sleeps.  Its segments form at most two transactions, each a
\* one-byte register-select write followed by a read: the six-byte read of
\* query_press_and_temp (behind the data-register select) first and the
\* two-byte read of query_light_level second, the second only after the
\* first read succeeded.
C22_FacadeMeasureTwoReads ==
    (IsV1 /\ cfg = FacadeArgs) =>
        /\ enviro_phat[1].bmp.mode = "Normal"
        /\ sleepLog = <<>>
        /\ \A i \in MeasureEntries :
               LET e == busLog[i]
               IN /\ e.stage \in {"data", "light"}
                  /\ e.stage = "data" <=> e.op = "query_press_and_temp"
                  /\ e.seg \in {1, 2}
                  /\ e.seg = 1 =>
                         /\ e.rw = "w"
                         /\ e.len = 1
                         /\ (e.ok /\ e.stage = "data") => e.bytes = <<DATA_REG_ADDR>>
                  /\ e.seg = 2 =>
                         /\ e.rw = "r"
                         /\ busLog[i - 1].tid = e.tid
                         /\ busLog[i - 1].seg = 1
                         /\ e.len = IF e.stage = "data" THEN 6 ELSE 2
                         /\ e.ok => Len(e.bytes) = e.len
                  /\ e.stage = "light" =>
                         \E j \in 1..(i - 1) :
                             /\ busLog[j].call = e.call
                             /\ busLog[j].stage = "data"
                             /\ busLog[j].seg = 2
                             /\ busLog[j].ok
                  /\ \A j \in MeasureEntries :
                         (busLog[j].call = e.call /\ busLog[j].stage = e.stage) =>
                             busLog[j].tid = e.tid

\* C22 witness: on the facade as EnviroPHatV1::new builds it, one measure()
\* call made both reads and returned a Measurement, and another made the
\* data read only, which failed.
C22_Witness ==
    /\ IsV1
    /\ cfg = FacadeArgs
    /\ \E i \in MeasureEntries :
           /\ busLog[i].stage = "light"
           /\ busLog[i].seg = 2
           /\ busLog[i].ok
           /\ busLog[i].call \in DOMAIN results
    /\ \E i \in MeasureEntries :
           /\ busLog[i].stage = "data"
           /\ ~busLog[i].ok
           /\ busLog[i].call \in DOMAIN results
           /\ \A j \in MeasureEntries : busLog[j].call = busLog[i].call => busLog[j].stage = "data"

====
